---- MODULE Spec2Model ----
(***************************************************************************)
(* agent-hooks: event dispatch and listener execution engine.              *)
(*                                                                         *)
(* Strings of the program are sequences of one-character strings, so that  *)
(* trimming, prefix tests, splitting and the regular expressions of the    *)
(* condition evaluator are computed and not assumed.  JavaScript values    *)
(* are tagged records.  Time is the millisecond clock read by Date.now().  *)
(***************************************************************************)
EXTENDS Integers, Sequences, FiniteSets, TLC

(***************************************************************************)
(* Characters, in code-unit order.                                         *)
(***************************************************************************)
Chars ==
  << " ", "!", "\"", "$", "'", "*", ",", ".",
     "0", "1", "2", "3", "4", "5", "6", "7", "8", "9",
     "<", "=", ">",
     "A", "B", "C", "D", "E", "F", "G", "H", "I", "J", "K", "L", "M",
     "N", "O", "P", "Q", "R", "S", "T", "U", "V", "W", "X", "Y", "Z",
     "[", "]", "_",
     "a", "b", "c", "d", "e", "f", "g", "h", "i", "j", "k", "l", "m",
     "n", "o", "p", "q", "r", "s", "t", "u", "v", "w", "x", "y", "z",
     "{", "|", "}" >>

CharCode(c) == CHOOSE i \in 1..Len(Chars) : Chars[i] = c

DigitChars == <<"0", "1", "2", "3", "4", "5", "6", "7", "8", "9">>

IsDigit(c) == \E i \in 1..10 : DigitChars[i] = c

DigitValue(c) == (CHOOSE i \in 1..10 : DigitChars[i] = c) - 1

IsLetter(c) ==
  \/ CharCode(c) >= CharCode("A") /\ CharCode(c) <= CharCode("Z")
  \/ CharCode(c) >= CharCode("a") /\ CharCode(c) <= CharCode("z")

\* [a-zA-Z_]
IsIdentStart(c) == IsLetter(c) \/ c = "_"

\* [a-zA-Z0-9_]
IsIdentChar(c) == IsIdentStart(c) \/ IsDigit(c)

\* \s
IsSpace(c) == c = " "

(***************************************************************************)
(* String primitives.                                                      *)
(***************************************************************************)
Substring(s, from, to) == IF from > to THEN << >> ELSE SubSeq(s, from, to)

DropFirst(s, n) == Substring(s, n + 1, Len(s))

StartsWith(s, p) == Len(p) <= Len(s) /\ SubSeq(s, 1, Len(p)) = p

StartsWithAt(s, i, p) ==
  i + Len(p) - 1 <= Len(s) /\ Substring(s, i, i + Len(p) - 1) = p

EndsWith(s, p) ==
  Len(p) <= Len(s) /\ Substring(s, Len(s) - Len(p) + 1, Len(s)) = p

RECURSIVE SkipSpaces(_, _)
\* First position >= i of s that holds no whitespace (Len(s) + 1 if none).
SkipSpaces(s, i) ==
  IF i <= Len(s) /\ IsSpace(s[i]) THEN SkipSpaces(s, i + 1) ELSE i

RECURSIVE TrimEnd(_)
TrimEnd(s) ==
  IF Len(s) > 0 /\ IsSpace(s[Len(s)]) THEN TrimEnd(SubSeq(s, 1, Len(s) - 1)) ELSE s

Trim(s) == TrimEnd(DropFirst(s, SkipSpaces(s, 1) - 1))

\* indexOf(c), 1-based; 0 when absent.
IndexOf(s, c) ==
  IF \E i \in 1..Len(s) : s[i] = c
  THEN CHOOSE i \in 1..Len(s) : s[i] = c /\ \A j \in 1..(i - 1) : s[j] # c
  ELSE 0

Includes(s, c) == IndexOf(s, c) # 0

RECURSIVE SplitOn(_, _)
\* s.split(c)
SplitOn(s, c) ==
  IF ~Includes(s, c) THEN <<s>>
  ELSE <<Substring(s, 1, IndexOf(s, c) - 1)>> \o SplitOn(DropFirst(s, IndexOf(s, c)), c)

AllDigits(s) == Len(s) > 0 /\ \A i \in 1..Len(s) : IsDigit(s[i])

\* /^\d+\.\d+$/
IsDecimal(s) ==
  /\ Includes(s, ".")
  /\ AllDigits(Substring(s, 1, IndexOf(s, ".") - 1))
  /\ AllDigits(DropFirst(s, IndexOf(s, ".")))

RECURSIVE DigitsToInt(_)
DigitsToInt(s) ==
  IF Len(s) = 0 THEN 0
  ELSE 10 * DigitsToInt(SubSeq(s, 1, Len(s) - 1)) + DigitValue(s[Len(s)])

RECURSIVE Pow10(_)
Pow10(k) == IF k = 0 THEN 1 ELSE 10 * Pow10(k - 1)

RECURSIVE IntToDigits(_)
IntToDigits(n) ==
  IF n < 10 THEN <<DigitChars[n + 1]>>
  ELSE IntToDigits(n \div 10) \o <<DigitChars[(n % 10) + 1]>>

\* Code-unit order of two strings: -1, 0 or 1.
RECURSIVE CompareStrings(_, _)
CompareStrings(a, b) ==
  IF Len(a) = 0 /\ Len(b) = 0 THEN 0
  ELSE IF Len(a) = 0 THEN -1
  ELSE IF Len(b) = 0 THEN 1
  ELSE IF CharCode(a[1]) < CharCode(b[1]) THEN -1
  ELSE IF CharCode(a[1]) > CharCode(b[1]) THEN 1
  ELSE CompareStrings(Tail(a), Tail(b))

(***************************************************************************)
(* JavaScript values.  A number is the fraction n/d with d a power of ten  *)
(* and no common factor ten; d = 0 is NaN.                                 *)
(***************************************************************************)
Undefined == [t |-> "undefined"]

Null == [t |-> "null"]

Bool(b) == [t |-> "boolean", v |-> b]

RECURSIVE Normalise(_, _)
Normalise(n, d) ==
  IF d > 1 /\ n % 10 = 0 THEN Normalise(n \div 10, d \div 10)
  ELSE [t |-> "number", n |-> n, d |-> d]

Num(n) == [t |-> "number", n |-> n, d |-> 1]

NaN == [t |-> "number", n |-> 0, d |-> 0]

Str(s) == [t |-> "string", v |-> s]

Obj(f) == [t |-> "object", v |-> f]

Arr(s) == [t |-> "array", v |-> s]

IsNaN(x) == x.t = "number" /\ x.d = 0

\* a ?? b
Coalesce(a, b) == IF a.t \in {"undefined", "null"} THEN b ELSE a

\* { ...a, ...b } on the key/value maps of two objects
Spread(a, b) ==
  [k \in (DOMAIN a) \cup (DOMAIN b) |-> IF k \in DOMAIN b THEN b[k] ELSE a[k]]

\* parseInt(s, 10) for /^\d+$/
ParseInt(s) == Num(DigitsToInt(s))

\* parseFloat(s) for /^\d+\.\d+$/
ParseFloat(s) ==
  Normalise(
    DigitsToInt(Substring(s, 1, IndexOf(s, ".") - 1)) * Pow10(Len(s) - IndexOf(s, "."))
      + DigitsToInt(DropFirst(s, IndexOf(s, "."))),
    Pow10(Len(s) - IndexOf(s, ".")))

(***************************************************************************)
(* Conversions used by the comparison operators of the language.           *)
(* Numbers of the model are non-negative; signs, exponents and hexadecimal *)
(* numerals are outside the character set.                                 *)
(***************************************************************************)
NumberToString(x) ==
  IF x.d = 0 THEN <<"N", "a", "N">>
  ELSE IF x.d = 1 THEN IntToDigits(x.n)
  ELSE IntToDigits(x.n \div x.d) \o <<".">> \o
       DropFirst(IntToDigits(x.d + (x.n % x.d)), 1)

RECURSIVE ToStringJS(_)
RECURSIVE JoinValues(_)
\* Array.prototype.join(","): null and undefined elements give "".
JoinValues(s) ==
  IF Len(s) = 0 THEN << >>
  ELSE (IF s[1].t \in {"undefined", "null"} THEN << >> ELSE ToStringJS(s[1])) \o
       (IF Len(s) = 1 THEN << >> ELSE <<",">> \o JoinValues(Tail(s)))

\* String(x)
ToStringJS(x) ==
  CASE x.t = "undefined" -> <<"u", "n", "d", "e", "f", "i", "n", "e", "d">>
    [] x.t = "null" -> <<"n", "u", "l", "l">>
    [] x.t = "boolean" ->
         IF x.v THEN <<"t", "r", "u", "e">> ELSE <<"f", "a", "l", "s", "e">>
    [] x.t = "number" -> NumberToString(x)
    [] x.t = "string" -> x.v
    [] x.t = "array" -> JoinValues(x.v)
    [] OTHER ->
         <<"[", "o", "b", "j", "e", "c", "t", " ", "O", "b", "j", "e", "c", "t", "]">>

StringToNumber(s) ==
  IF Len(s) = 0 THEN Num(0)
  ELSE IF AllDigits(s) THEN ParseInt(s)
  ELSE IF IsDecimal(s) THEN ParseFloat(s)
  ELSE NaN

\* ToPrimitive with hint number
ToPrimitive(x) == IF x.t \in {"object", "array"} THEN Str(ToStringJS(x)) ELSE x

\* ToNumber of a primitive
ToNumber(x) ==
  CASE x.t = "undefined" -> NaN
    [] x.t = "null" -> Num(0)
    [] x.t = "boolean" -> IF x.v THEN Num(1) ELSE Num(0)
    [] x.t = "number" -> x
    [] OTHER -> StringToNumber(Trim(x.v))

\* Abstract relational comparison a < b: "true", "false" or "undefined".
IsLessThan(a, b) ==
  LET pa == ToPrimitive(a)
      pb == ToPrimitive(b)
  IN IF pa.t = "string" /\ pb.t = "string"
     THEN IF CompareStrings(pa.v, pb.v) < 0 THEN "true" ELSE "false"
     ELSE LET na == ToNumber(pa)
              nb == ToNumber(pb)
          IN IF IsNaN(na) \/ IsNaN(nb) THEN "undefined"
             ELSE IF na.n * nb.d < nb.n * na.d THEN "true" ELSE "false"

\* a === b, where b is never an object (a parsed literal or a length)
StrictEquals(a, b) ==
  /\ a.t = b.t
  /\ a.t \notin {"object", "array"}
  /\ ~IsNaN(a)
  /\ a = b

(***************************************************************************)
(* utils/conditions.ts                                                     *)
(***************************************************************************)
OpEq == <<"=", "=">>

OpNe == <<"!", "=">>

OpGt == <<">">>

OpLt == <<"<">>

OpGe == <<">", "=">>

OpLe == <<"<", "=">>

\* The alternation (==|!=|>|<|>=|<=), in the order the regular expression tries it.
Operators == <<OpEq, OpNe, OpGt, OpLt, OpGe, OpLe>>

evaluateComparison(operator, left, right) ==
  CASE operator = OpEq -> StrictEquals(left, right)
    [] operator = OpNe -> ~StrictEquals(left, right)
    [] operator = OpGt -> IsLessThan(right, left) = "true"
    [] operator = OpLt -> IsLessThan(left, right) = "true"
    [] operator = OpGe -> IsLessThan(left, right) = "false"
    [] operator = OpLe -> IsLessThan(right, left) = "false"
    [] OTHER -> FALSE

\* A canonical array index: "0", or digits without a leading zero.
IsIndexKey(key) == AllDigits(key) /\ (Len(key) = 1 \/ key[1] # "0")

LengthKey == <<"l", "e", "n", "g", "t", "h">>

\* current[key]: own properties of objects, length and indices of arrays and
\* strings; inherited properties are not modelled.
GetProperty(current, key) ==
  CASE current.t = "object" ->
         IF key \in DOMAIN current.v THEN current.v[key] ELSE Undefined
    [] current.t = "array" ->
         IF key = LengthKey THEN Num(Len(current.v))
         ELSE IF IsIndexKey(key) /\ DigitsToInt(key) < Len(current.v)
              THEN current.v[DigitsToInt(key) + 1]
              ELSE Undefined
    [] current.t = "string" ->
         IF key = LengthKey THEN Num(Len(current.v))
         ELSE IF IsIndexKey(key) /\ DigitsToInt(key) < Len(current.v)
              THEN Str(<<current.v[DigitsToInt(key) + 1]>>)
              ELSE Undefined
    [] OTHER -> Undefined

RECURSIVE WalkKeys(_, _)
WalkKeys(current, keys) ==
  IF Len(keys) = 0 THEN current
  ELSE IF current.t \in {"null", "undefined"} THEN Undefined
  ELSE WalkKeys(GetProperty(current, keys[1]), Tail(keys))

getNestedValue(obj, path) == WalkKeys(obj, SplitOn(path, "."))

parseValue(valueStr) ==
  IF valueStr = <<"t", "r", "u", "e">> THEN Bool(TRUE)
  ELSE IF valueStr = <<"f", "a", "l", "s", "e">> THEN Bool(FALSE)
  ELSE IF valueStr = <<"n", "u", "l", "l">> THEN Null
  ELSE IF valueStr = <<"u", "n", "d", "e", "f", "i", "n", "e", "d">> THEN Undefined
  ELSE IF AllDigits(valueStr) THEN ParseInt(valueStr)
  ELSE IF IsDecimal(valueStr) THEN ParseFloat(valueStr)
  ELSE IF Len(valueStr) >= 2 /\ valueStr[1] = "\"" /\ valueStr[Len(valueStr)] = "\""
       THEN Str(Substring(valueStr, 2, Len(valueStr) - 1))
  ELSE IF Len(valueStr) >= 2 /\ valueStr[1] = "'" /\ valueStr[Len(valueStr)] = "'"
       THEN Str(Substring(valueStr, 2, Len(valueStr) - 1))
  ELSE Str(valueStr)

RECURSIVE IdentEnd(_, _)
\* Last position of the run of [a-zA-Z0-9_] that starts at i (i - 1 if none).
IdentEnd(s, i) ==
  IF i <= Len(s) /\ IsIdentChar(s[i]) THEN IdentEnd(s, i + 1) ELSE i - 1

RECURSIVE PathEnd(_, _)
\* Last position of ident(\.ident)* starting at i (i - 1 if there is none).
PathEnd(s, i) ==
  IF i > Len(s) \/ ~IsIdentStart(s[i]) THEN i - 1
  ELSE LET e == IdentEnd(s, i)
       IN IF e + 2 <= Len(s) /\ s[e + 1] = "." /\ IsIdentStart(s[e + 2])
          THEN PathEnd(s, e + 2)
          ELSE e

\* The tail \s*(.+)$ of both regular expressions, from position i: the captured
\* value, or << >> when it does not match.
CapturedValue(s, i) ==
  IF i > Len(s) THEN << >>
  ELSE IF SkipSpaces(s, i) <= Len(s) THEN DropFirst(s, SkipSpaces(s, i) - 1)
  ELSE <<s[Len(s)]>>

\* \s*(==|!=|>|<|>=|<=)\s*(.+)$ from position i: the first alternative that
\* lets the whole expression match.
OperatorMatch(s, i) ==
  LET at == SkipSpaces(s, i)
      ok(k) == StartsWithAt(s, at, Operators[k]) /\
               CapturedValue(s, at + Len(Operators[k])) # << >>
  IN IF \E k \in 1..Len(Operators) : ok(k)
     THEN LET k == CHOOSE k \in 1..Len(Operators) :
                     ok(k) /\ \A j \in 1..(k - 1) : ~ok(j)
          IN [matched |-> TRUE, operator |-> Operators[k],
              valueStr |-> CapturedValue(s, at + Len(Operators[k]))]
     ELSE [matched |-> FALSE, operator |-> << >>, valueStr |-> << >>]

\* /^(ident(?:\.ident)*)\s*(op)\s*(.+)$/ on the text after the leading dot
comparisonMatch(path) ==
  IF PathEnd(path, 1) = 0
  THEN [matched |-> FALSE, fieldPath |-> << >>, operator |-> << >>, valueStr |-> << >>]
  ELSE LET m == OperatorMatch(path, PathEnd(path, 1) + 1)
       IN [matched |-> m.matched, fieldPath |-> Substring(path, 1, PathEnd(path, 1)),
           operator |-> m.operator, valueStr |-> m.valueStr]

\* /^length\s*(op)\s*(.+)$/
lengthCompMatch(rightExpr) ==
  IF StartsWith(rightExpr, LengthKey)
  THEN OperatorMatch(rightExpr, Len(LengthKey) + 1)
  ELSE [matched |-> FALSE, operator |-> << >>, valueStr |-> << >>]

LengthOf(pipeValue) ==
  IF pipeValue.t \in {"array", "string"} THEN Num(Len(pipeValue.v)) ELSE Undefined

Unsupported == [success |-> FALSE, result |-> Undefined]

RECURSIVE simpleEvaluate(_, _)
simpleEvaluate(expr, data) ==
  LET expression == Trim(expr)
  IN IF Includes(expression, "|")
     THEN LET pipeIndex == IndexOf(expression, "|")
              leftExpr == Trim(Substring(expression, 1, pipeIndex - 1))
              rightExpr == Trim(DropFirst(expression, pipeIndex))
              leftResult == simpleEvaluate(leftExpr, data)
              m == lengthCompMatch(rightExpr)
          IN IF ~leftResult.success THEN leftResult
             ELSE IF rightExpr = LengthKey
             THEN [success |-> TRUE, result |-> LengthOf(leftResult.result)]
             ELSE IF m.matched
             THEN [success |-> TRUE,
                   result |-> Bool(evaluateComparison(m.operator,
                     LengthOf(leftResult.result),
                     IF AllDigits(m.valueStr) THEN ParseInt(m.valueStr)
                     ELSE IF IsDecimal(m.valueStr) THEN ParseFloat(m.valueStr)
                     ELSE Str(m.valueStr)))]
             ELSE Unsupported
     ELSE IF StartsWith(expression, <<".">>)
     THEN LET path == DropFirst(expression, 1)
              m == comparisonMatch(path)
          IN IF m.matched
             THEN [success |-> TRUE,
                   result |-> Bool(evaluateComparison(m.operator,
                     getNestedValue(data, m.fieldPath), parseValue(m.valueStr)))]
             ELSE [success |-> TRUE, result |-> getNestedValue(data, path)]
     ELSE Unsupported

\* Variant with the truthiness of the language in place of the four
\* comparisons of line 157 (0 and NaN then count as false).
evaluateConditionTruthy(expression, data) ==
  LET evalResult == simpleEvaluate(expression, data)
  IN IF ~evalResult.success THEN TRUE
     ELSE /\ ~StrictEquals(evalResult.result, Null)
          /\ ~StrictEquals(evalResult.result, Bool(FALSE))
          /\ ~StrictEquals(evalResult.result, Str(<< >>))
          /\ ~StrictEquals(evalResult.result, Undefined)
          /\ ~StrictEquals(evalResult.result, Num(0))
          /\ ~IsNaN(evalResult.result)

\* The built-in evaluator; the optional jq-web module is not installed.
evaluateCondition(expression, data) ==
  LET evalResult == simpleEvaluate(expression, data)
  IN IF ~evalResult.success THEN TRUE
     ELSE /\ ~StrictEquals(evalResult.result, Null)
          /\ ~StrictEquals(evalResult.result, Bool(FALSE))
          /\ ~StrictEquals(evalResult.result, Str(<< >>))
          /\ ~StrictEquals(evalResult.result, Undefined)

(***************************************************************************)
(* config/schema.ts                                                        *)
(***************************************************************************)
MAX_PAYLOAD_SIZE_BYTES == 10240

DEFAULT_TIMEOUT_MS == 5000

\* The grace period between SIGTERM and SIGKILL (shell listener).
KILL_GRACE_MS == 500

(***************************************************************************)
(* types.ts: listener and chain entries, responses and error records.      *)
(* Messages and stack details of error records are not modelled.           *)
(***************************************************************************)
EmptyObject == Obj(<< >>)

isChainConfig(entry) == "chain" \in DOMAIN entry

ListenerError(listener, type) == [listener_id |-> listener.name, type |-> type]

ListenerResponse(listener, type, status, result, duration_ms, error) ==
  [listener_id |-> listener.name, name |-> listener.name, type |-> type,
   priority |-> listener.priority, status |-> status, result |-> result,
   duration_ms |-> duration_ms, error |-> error]

\* A response as a value inside event data.
AsValue(response) == [t |-> "object", v |-> response]

RECURSIVE AsValues(_)
AsValues(rs) == IF Len(rs) = 0 THEN << >> ELSE <<AsValue(rs[1])>> \o AsValues(Tail(rs))

Min(a, b) == IF a <= b THEN a ELSE b

(***************************************************************************)
(* events/dispatcher.ts: matching.                                         *)
(***************************************************************************)
\* Variant that compares with the prefix alone, without the dot after it
\* (`a.*` then matches `ab.c` and `a`).
MatchesBarePrefix(pattern, event) ==
  \/ pattern = event
  \/ /\ EndsWith(pattern, <<".", "*">>)
     /\ StartsWith(event, Substring(pattern, 1, Len(pattern) - 2))

\* dispatcher.ts 315-325
matchesEvent(pattern, event) ==
  \/ pattern = event
  \/ /\ EndsWith(pattern, <<".", "*">>)
     /\ StartsWith(event, Substring(pattern, 1, Len(pattern) - 2) \o <<".">>)

RECURSIVE InsertBeforeEquals(_, _)
\* Variant that is not stable: an entry goes before those of its own priority.
InsertBeforeEquals(sorted, e) ==
  IF Len(sorted) = 0 THEN <<e>>
  ELSE IF sorted[1].priority - e.priority < 0
       THEN <<sorted[1]>> \o InsertBeforeEquals(Tail(sorted), e)
       ELSE <<e>> \o sorted

RECURSIVE InsertByPriority(_, _)
InsertByPriority(sorted, e) ==
  IF Len(sorted) = 0 THEN <<e>>
  ELSE IF sorted[1].priority - e.priority <= 0
       THEN <<sorted[1]>> \o InsertByPriority(Tail(sorted), e)
       ELSE <<e>> \o sorted

\* Variant without the sort of line 274 (the ordering property fails under it).
Unsorted(entries) == entries

RECURSIVE sortByPriority(_)
\* entries.sort((a, b) => a.priority - b.priority): a stable sort
sortByPriority(entries) ==
  IF Len(entries) = 0 THEN << >>
  ELSE InsertByPriority(sortByPriority(SubSeq(entries, 1, Len(entries) - 1)),
                        entries[Len(entries)])

\* !when
NoCondition(when) == when.t = "undefined" \/ when = Str(<< >>)

\* Variant that ignores `when` (the chain gate fails under it).
passesUnconditionally(entry, data) == TRUE

\* dispatcher.ts 258-269: an entry is kept when it has no `when` or its `when`
\* evaluates true against data ?? {}
passesCondition(entry, data) ==
  \/ NoCondition(entry.when)
  \/ evaluateCondition(entry.when.v, Coalesce(data, EmptyObject))

RECURSIVE KeepMatching(_, _)
KeepMatching(eventEntries, data) ==
  IF Len(eventEntries) = 0 THEN << >>
  ELSE (IF passesCondition(eventEntries[1], data) THEN <<eventEntries[1]>> ELSE << >>)
       \o KeepMatching(Tail(eventEntries), data)

RECURSIVE CollectEntries(_, _, _)
\* The loop over Object.entries(config.events), in insertion order.
CollectEntries(events, event, data) ==
  IF Len(events) = 0 THEN << >>
  ELSE (IF matchesEvent(events[1].pattern, event)
        THEN KeepMatching(events[1].entries, data) ELSE << >>)
       \o CollectEntries(Tail(events), event, data)

findEntries(event, data, config) ==
  sortByPriority(CollectEntries(config.events, event, data))

RECURSIVE CollectAll(_, _)
CollectAll(events, event) ==
  IF Len(events) = 0 THEN << >>
  ELSE (IF matchesEvent(events[1].pattern, event) THEN events[1].entries ELSE << >>)
       \o CollectAll(Tail(events), event)

findAllEntriesForEvent(event, config) == sortByPriority(CollectAll(config.events, event))

\* Variant in which the lists of the configuration are sorted where they are.
configSortedInPlace(event, config) ==
  [config EXCEPT !.events =
     [i \in DOMAIN config.events |->
        IF matchesEvent(config.events[i].pattern, event)
        THEN [config.events[i] EXCEPT !.entries = sortByPriority(@)]
        ELSE config.events[i]]]

\* dispatcher.ts 253-274 and 288-296: the configuration after findEntries or
\* findAllEntriesForEvent.  Both push the matching entries into an array of
\* their own and sort that array; config.events and its lists are only read.
configAfterFind(event, config) == config

RECURSIVE matchingUnder(_, _)
\* tools/has-listeners.ts 47-56: the entries under the patterns that are the
\* event or end in ".*" with the event beginning with the prefix and a dot.
matchingUnder(events, event) ==
  IF Len(events) = 0 THEN << >>
  ELSE LET pattern == events[1].pattern
           prefix == Substring(pattern, 1, Len(pattern) - 2)
       IN (IF pattern = event THEN events[1].entries
           ELSE IF EndsWith(pattern, <<".", "*">>) /\ StartsWith(event, prefix \o <<".">>)
                THEN events[1].entries
                ELSE << >>)
          \o matchingUnder(Tail(events), event)

\* tools/has-listeners.ts 39-59
findMatchingListeners(event, config) == matchingUnder(config.events, event)

RECURSIVE insertAscending(_, _)
insertAscending(sorted, n) ==
  IF Len(sorted) = 0 THEN <<n>>
  ELSE IF sorted[1] - n <= 0 THEN <<sorted[1]>> \o insertAscending(Tail(sorted), n)
       ELSE <<n>> \o sorted

RECURSIVE sortAscending(_)
\* .sort((a, b) => a - b)
sortAscending(ns) ==
  IF Len(ns) = 0 THEN << >>
  ELSE insertAscending(sortAscending(SubSeq(ns, 1, Len(ns) - 1)), ns[Len(ns)])

\* The answer of the tool for the listeners found.
HasListenersResponse(event, listeners) ==
  [event |-> event,
   has_listeners |-> Len(listeners) > 0,
   listener_count |-> Len(listeners),
   priorities |-> sortAscending([i \in 1..Len(listeners) |-> listeners[i].priority])]

\* The handler of has_listeners.  The sources hold it twice: the one of
\* tools/has-listeners.ts collects the entries itself, the one of part_004
\* asks the dispatcher with findListeners(event, undefined, config), which
\* is findEntries (dispatcher.ts 300-306).
hasListenersHandler(build, event, config) ==
  IF build = "standalone"
  THEN HasListenersResponse(event, findMatchingListeners(event, config))
  ELSE HasListenersResponse(event, findEntries(event, Undefined, config))

(***************************************************************************)
(* events/dispatcher.ts: budgets.                                          *)
(***************************************************************************)
\* timeout ?? config.default_timeout ?? DEFAULT_TIMEOUT_MS
effectiveTimeoutOf(timeout, config) ==
  Coalesce(timeout, Coalesce(config.default_timeout, Num(DEFAULT_TIMEOUT_MS))).n

\* Variant with >= in place of > of line 35 (the limit property fails under it).
RejectsAtLimit(data, payloadSize) ==
  data # Undefined /\ payloadSize >= MAX_PAYLOAD_SIZE_BYTES

\* dispatcher.ts 33-40 and 213-220
payloadTooLarge(data, payloadSize) ==
  data # Undefined /\ payloadSize > MAX_PAYLOAD_SIZE_BYTES

\* Variant with > in place of >= of line 68 (the budget property fails under it).
GlobalExhaustedStrict(elapsed, budget) == elapsed > budget

\* dispatcher.ts 68
globalBudgetExhausted(elapsed, budget) == elapsed >= budget

\* dispatcher.ts 151
chainBudgetExhausted(elapsed, budget) == elapsed >= budget

\* dispatcher.ts 86
listenerTimeoutOf(entry, budget, remainingTime) ==
  Min(Coalesce(entry.timeout, Num(budget)).n, remainingTime)

\* dispatcher.ts 76
chainTimeoutOf(entry, budget, remainingTime) ==
  Min(Coalesce(entry.timeout, Num(budget)).n, remainingTime)

\* Variant without the Math.min of line 157 (the allotment property fails under it).
MemberTimeoutUnclamped(member, budget, remainingTime) ==
  Coalesce(member.timeout, Num(budget)).n

\* dispatcher.ts 157
memberTimeoutOf(member, budget, remainingTime) ==
  Min(Coalesce(member.timeout, Num(budget)).n, remainingTime)

ChainResultsKey ==
  <<"_", "c", "h", "a", "i", "n", "_", "r", "e", "s", "u", "l", "t", "s">>

\* Variant that passes the caller's data through (the threading property fails under it).
NotEnriched(data, chainResults) == data

\* dispatcher.ts 160-163: { ...data, _chain_results: [...chainResults] }
enrichedData(data, chainResults) ==
  Obj(Spread(data.v, [k \in {ChainResultsKey} |-> Arr(AsValues(chainResults))]))

\* Variant that writes _chain_results into the caller's object.
dataEnrichedInPlace(data, chainResults) ==
  IF data.t = "object" THEN enrichedData(data, chainResults) ELSE data

\* dispatcher.ts 159-163: the caller's object after the data of a member was
\* built.  The spread makes a new object and the caller's is only read.
dataAfterEnrich(data, chainResults) == data

\* Variant that goes on after a member timeout (fail-fast fails under it).
StopsOnErrorOnly(result) == result.status = "error"

\* dispatcher.ts 173
memberStopsChain(result) == result.status = "error" \/ result.status = "timeout"

(***************************************************************************)
(* Listener executors, as functions of the listener, its allotted time and *)
(* what the environment does (the child process, the template file).  Each *)
(* yields the response and the time the call took.                         *)
(***************************************************************************)
\* !field
Missing(field) == field.t = "undefined" \/ field = Str(<< >>)

\* listeners/shell-listener.ts.  child.runtime is when the child would close by
\* itself; one that hangs or runs up to the timeout gets SIGTERM at `timeout`
\* and closes child.termDelay later (at most the grace period, when SIGKILL ends it).
executeShellListener(listener, timeout, child) ==
  IF Missing(listener.command)
  THEN [response |-> ListenerResponse(listener, "shell", "error", Null, 0,
                       ListenerError(listener, "invalid_config")),
        elapsed |-> 0]
  ELSE IF ~child.spawns
  THEN [response |-> ListenerResponse(listener, "shell", "error", Null, 0,
                       ListenerError(listener, "execution_error")),
        elapsed |-> 0]
  ELSE IF child.hangs \/ child.runtime >= timeout
  THEN [response |-> ListenerResponse(listener, "shell", "timeout", Null,
                       timeout + Min(child.termDelay, KILL_GRACE_MS),
                       ListenerError(listener, "timeout")),
        elapsed |-> timeout + Min(child.termDelay, KILL_GRACE_MS)]
  ELSE IF child.code # 0
  THEN [response |-> ListenerResponse(listener, "shell", "error", Null, child.runtime,
                       ListenerError(listener, "execution_error")),
        elapsed |-> child.runtime]
  ELSE IF child.stdout = "garbage"
  THEN [response |-> ListenerResponse(listener, "shell", "error", Null, child.runtime,
                       ListenerError(listener, "invalid_output")),
        elapsed |-> child.runtime]
  ELSE [response |-> ListenerResponse(listener, "shell", "success", EmptyObject,
                       child.runtime, Undefined),
        elapsed |-> child.runtime]

\* listeners/template-listener.ts.  The allotted time is not a parameter: the
\* file is read synchronously, however long that takes.  The rendered content
\* is not part of the result modelled here.
executeTemplateListener(listener, file) ==
  IF Missing(listener.path)
  THEN [response |-> ListenerResponse(listener, "template", "error", Null, 0,
                       ListenerError(listener, "invalid_config")),
        elapsed |-> 0]
  ELSE IF ~file.exists
  THEN [response |-> ListenerResponse(listener, "template", "error", Null, 0,
                       ListenerError(listener, "file_not_found")),
        elapsed |-> 0]
  ELSE IF file.oversize
  THEN [response |-> ListenerResponse(listener, "template", "error", Null, 0,
                       ListenerError(listener, "size_limit")),
        elapsed |-> 0]
  ELSE [response |-> ListenerResponse(listener, "template", "success",
                       AsValue([template_path |-> listener.path.v]),
                       file.readTime, Undefined),
        elapsed |-> file.readTime]

\* listeners/mcp-listener.ts
\* "${data." and "${env.", the openings of the two kinds of reference.
DataRef == <<"$", "{", "d", "a", "t", "a", ".">>

EnvRef == <<"$", "{", "e", "n", "v", ".">>

\* The environment of the process: HOME is set, nothing else is.
HomeKey == <<"H", "O", "M", "E">>

ProcessEnv == Obj([k \in {HomeKey} |-> Str(<<"/", "h">>)])

\* s.replace(/\$\{data\.([^}]+)\}/g, (_, key) => String(object[key] ?? "")),
\* and the same for env: each reference whose key is at least one character
\* other than "}" is replaced, from left to right, by the string form of the
\* property of `object` named by the whole key.
RECURSIVE replaceRefs(_, _, _)
replaceRefs(s, opener, object) ==
  IF Len(s) = 0 THEN << >>
  ELSE LET rest == DropFirst(s, Len(opener))
           close == IndexOf(rest, "}")
       IN IF StartsWith(s, opener) /\ close > 1
          THEN ToStringJS(Coalesce(GetProperty(object, Substring(rest, 1, close - 1)),
                                   Str(<< >>)))
               \o replaceRefs(DropFirst(rest, close), opener, object)
          ELSE <<s[1]>> \o replaceRefs(Tail(s), opener, object)

\* Variant that leaves the references as they are.
keepTemplate(template, data) == template

\* part_006 63-75 (template-listener.ts 79-84 does the same on the content
\* of the file): data references first, then env references.
substituteTemplate(template, data) ==
  replaceRefs(replaceRefs(template, DataRef, data), EnvRef, ProcessEnv)

\* part_006 35-41: args, one rendered text for each entry of args_mapping.
mcpArgs(listener, data) ==
  IF listener.args_mapping.t = "object"
  THEN Obj([key \in DOMAIN listener.args_mapping.v |->
             Str(substituteTemplate(listener.args_mapping.v[key].v, data))])
  ELSE EmptyObject

executeMcpListener(listener, data) ==
  IF Missing(listener.server) \/ Missing(listener.tool)
  THEN [response |-> ListenerResponse(listener, "mcp", "error", Null, 0,
                       ListenerError(listener, "invalid_config")),
        elapsed |-> 0]
  ELSE [response |-> ListenerResponse(listener, "mcp", "pending_execution",
                       AsValue([mcp_calls |-> <<[server |-> listener.server.v,
                                                 tool |-> listener.tool.v,
                                                 args |-> mcpArgs(listener, data)]>>]),
                       0, Undefined),
        elapsed |-> 0]

(***************************************************************************)
(* The configurations, events and payloads the calls are made with.        *)
(***************************************************************************)
MaxRunSteps == 2

\* How long a child or a file read may take, in ms.
Runtimes == {60 * k : k \in 0..MaxRunSteps}

Children ==
  [spawns : {TRUE}, hangs : BOOLEAN, runtime : Runtimes, code : {0, 1},
   stdout : {"json"}, termDelay : {0, KILL_GRACE_MS}]
  \cup
  [spawns : BOOLEAN, hangs : {FALSE}, runtime : {0}, code : {0},
   stdout : {"json", "garbage"}, termDelay : {0}]

Files ==
  [exists : {TRUE}, oversize : {FALSE}, readTime : Runtimes]
  \cup [exists : BOOLEAN, oversize : BOOLEAN, readTime : {0}]

QKey == <<"q">>

HKey == <<"h">>

\* args_mapping: { q: "${data.s}", h: "at ${env.HOME}" }
ArgsMapping ==
  Obj([key \in {QKey, HKey} |->
        IF key = QKey THEN Str(DataRef \o <<"s", "}">>)
        ELSE Str(<<"a", "t", " ">> \o EnvRef \o HomeKey \o <<"}">>)])

Listener(name, type, priority, timeout, when) ==
  [name |-> name, type |-> type, priority |-> priority, timeout |-> timeout,
   when |-> when,
   command |-> IF type = "shell" THEN Str(<<"r", "u", "n">>) ELSE Undefined,
   path |-> IF type = "template" THEN Str(<<"t", "p", "l">>) ELSE Undefined,
   server |-> IF type = "mcp" THEN Str(<<"s", "r", "v">>) ELSE Undefined,
   tool |-> IF type = "mcp" THEN Str(<<"t", "o", "o", "l">>) ELSE Undefined,
   args_mapping |-> IF type = "mcp" THEN ArgsMapping ELSE Undefined]

Chain(members, priority, timeout, when) ==
  [chain |-> members, priority |-> priority, timeout |-> timeout, when |-> when]

\* .s == "ok"
WhenOk == Str(<<".", "s", " ", "=", "=", " ", "\"", "o", "k", "\"">>)

\* .s == "no"
WhenNo == Str(<<".", "s", " ", "=", "=", " ", "\"", "n", "o", "\"">>)

\* .s
WhenS == Str(<<".", "s">>)

EventAB == <<"a", ".", "b">>

EventAC == <<"a", ".", "c">>

EventXY == <<"x", ".", "y">>

PatternAStar == <<"a", ".", "*">>

\* Independent listeners declared out of priority order under two patterns, a
\* conditional chain with its own timeout between them (its second member
\* declares a `when` of its own), an entry of unknown type.
ConfigMixed ==
  [default_timeout |-> Undefined,
   events |->
     << [pattern |-> PatternAStar,
         entries |-> << Listener("second", "shell", 20, Undefined, Undefined) >>],
        [pattern |-> EventAB,
         entries |->
           << Chain(<< Listener("step1", "template", 1, Undefined, Undefined),
                       Listener("step2", "shell", 2, Undefined, WhenNo) >>,
                    10, Num(100), WhenOk),
              Listener("first", "shell", 5, Num(100), Undefined),
              Listener("webhook", "http", 10, Undefined, Undefined) >>] >>]

\* Two chains in a row: three members the last of which is of unknown type,
\* then a chain with a timeout of its own.
ConfigChains ==
  [default_timeout |-> Num(300),
   events |->
     << [pattern |-> EventAB,
         entries |->
           << Chain(<< Listener("t1", "template", 1, Undefined, Undefined),
                       Listener("t2", "shell", 2, Undefined, Undefined) >>,
                    2, Num(100), Undefined),
              Chain(<< Listener("s1", "shell", 1, Num(100), Undefined),
                       Listener("s2", "template", 2, Undefined, Undefined),
                       Listener("s3", "http", 3, Undefined, Undefined) >>,
                    1, Undefined, Undefined),
              Listener("last", "mcp", 3, Undefined, WhenS) >>] >>]

Configs == {ConfigMixed, ConfigChains}

SKey == <<"s">>

DataOk == Obj([k \in {SKey} |-> Str(<<"o", "k">>)])

DataNo == Obj([k \in {SKey} |-> Str(<<"n", "o">>)])

\* A payload that already carries a _chain_results field of its own.
DataForged ==
  Obj([k \in {SKey, ChainResultsKey} |->
        IF k = SKey THEN Str(<<"o", "k">>) ELSE Arr(<<Str(<<"x">>)>>)])

\* A payload and the byte length of its JSON serialisation.  The objects carry
\* only the fields the engine reads; the size is given with them.
Payloads ==
  { [data |-> Undefined, bytes |-> 0],
    [data |-> DataOk, bytes |-> MAX_PAYLOAD_SIZE_BYTES],
    [data |-> DataNo, bytes |-> MAX_PAYLOAD_SIZE_BYTES - 1],
    [data |-> DataForged, bytes |-> 64],
    [data |-> DataOk, bytes |-> MAX_PAYLOAD_SIZE_BYTES + 1],
    [data |-> DataNo, bytes |-> 11 * 1024] }

Timeouts == {Undefined, Num(200)}

(***************************************************************************)
(* State.                                                                  *)
(***************************************************************************)
VARIABLES
  config,           \* the configuration snapshot the call is made with
  event,            \* the event fired
  data,             \* the payload (Undefined when the caller gives none)
  payloadSize,      \* Buffer.byteLength(JSON.stringify(data))
  timeout,          \* the timeout argument (Undefined when not given)
  mode,             \* "sync": dispatch is called; "async": dispatchAsync is
  now,              \* Date.now()
  nextId,           \* the next fresh uuid
  apc,              \* dispatchAsync: "idle", "begin", "find", "returned", "threw"
  asyncId,          \* the invocation id dispatchAsync generated
  asyncResponse,    \* what dispatchAsync returned
  rejection,        \* the promise of the background dispatch: "none" while it
                    \* has not rejected, then "handled" or "unhandled"
  pc,               \* dispatch: position in the function
  startTime, invocationId, effectiveTimeout,
  entries, idx, responses, errors, timedOut,
  chainStart, chainTimeout, cidx, cResponses, cErrors, chainResults, chainTimedOut,
  call,             \* the executeListener call in flight
  ret,              \* what it returned or threw
  calls,            \* every executeListener call made, with its arguments
  response,         \* the EmitResponse dispatch returned
  log,              \* what logEmit was given
  logFile,          \* the lines appended to emit.log
  globalExhausted,  \* whether the check of line 68 found the budget used up
  fn,               \* the function applied on its own ("none" during a dispatch)
  input,            \* its arguments
  output,           \* its result, once applied
  shell             \* one executeShellListener call followed step by step

evalVars == <<fn, input, output>>

inputVars == <<config, event, data, payloadSize, timeout, mode>>

asyncVars == <<apc, asyncId, asyncResponse, rejection>>

loopVars == <<entries, idx, responses, errors, timedOut, globalExhausted>>

chainVars ==
  <<chainStart, chainTimeout, cidx, cResponses, cErrors, chainResults, chainTimedOut>>

callVars == <<call, ret, calls>>

runVars == <<startTime, invocationId, effectiveTimeout>>

outVars == <<response, log, logFile>>

vars ==
  <<shell, evalVars, inputVars, now, nextId, asyncVars, pc, runVars, loopVars, chainVars, callVars,
    outVars>>

\* No function is being applied on its own.
NoEval ==
  /\ fn = "none"
  /\ input = Undefined
  /\ output = [done |-> FALSE]

\* No shell listener is being followed step by step.
NoShell == shell = [pc |-> "none"]

Init ==
  /\ NoEval
  /\ NoShell
  /\ config \in Configs
  /\ event \in {EventAB, EventAC, EventXY}
  /\ \E p \in Payloads : data = p.data /\ payloadSize = p.bytes
  /\ timeout \in Timeouts
  /\ mode \in {"sync", "async"}
  /\ now = 0
  /\ nextId = 1
  /\ apc = IF mode = "async" THEN "begin" ELSE "idle"
  /\ asyncId = << >>
  /\ asyncResponse = Undefined
  /\ rejection = "none"
  /\ pc = IF mode = "sync" THEN "begin" ELSE "idle"
  /\ startTime = 0
  /\ invocationId = << >>
  /\ effectiveTimeout = 0
  /\ entries = << >>
  /\ idx = 0
  /\ responses = << >>
  /\ errors = << >>
  /\ timedOut = FALSE
  /\ globalExhausted = FALSE
  /\ chainStart = 0
  /\ chainTimeout = 0
  /\ cidx = 0
  /\ cResponses = << >>
  /\ cErrors = << >>
  /\ chainResults = << >>
  /\ chainTimedOut = FALSE
  /\ call = Undefined
  /\ ret = Undefined
  /\ calls = << >>
  /\ response = Undefined
  /\ log = << >>
  /\ logFile = << >>

(***************************************************************************)
(* dispatch                                                                *)
(***************************************************************************)
Succeeded(status) == status \in {"success", "pending_execution"}

\* part_002 51-69: the line logEmit writes for a result.
logEntry(r) ==
  [timestamp |-> r.executed_at,
   invocation_id |-> r.invocation_id,
   event |-> r.event,
   listeners_attempted |-> Len(r.responses),
   listeners_succeeded |->
     Cardinality({i \in 1..Len(r.responses) : Succeeded(r.responses[i].status)}),
   listeners_failed |-> Len(r.errors),
   status |-> IF Len(r.errors) > 0 THEN "partial" ELSE "success",
   duration_ms |-> r.duration_ms,
   timed_out |-> r.timed_out]

\* Variant without the try/catch: a failure of the file system reaches the caller.
logEmitUncaught(failed) == IF failed THEN "threw" ELSE "returned"

\* part_002 46-75: how logEmit ends; `failed` is whether a call of fs threw.
\* The body is inside try/catch, so the call returns either way.
logEmit(failed) == "returned"

\* dispatcher.ts 57-58, 132-133: logEmit(response); return response.
LogAndReturn(r, failed) ==
  /\ log' = Append(log, r)
  /\ logFile' = IF failed THEN logFile ELSE Append(logFile, logEntry(r))
  /\ IF logEmit(failed) = "returned"
     THEN response' = r /\ pc' = "done"
     ELSE response' = response /\ pc' = "threw"

\* dispatcher.ts 28, 210: `evt-` and the first characters of a fresh uuid.
newInvocationId(uuid) == <<"e", "v", "t", "-">> \o IntToDigits(uuid)

\* dispatcher.ts 27-40: the synchronous start of dispatch, up to the payload
\* check; `bytes` is the length of the serialisation of data at that moment.
Prologue(bytes) ==
  /\ startTime' = now
  /\ invocationId' = newInvocationId(nextId)
  /\ effectiveTimeout' = effectiveTimeoutOf(timeout, config)
  /\ pc' = IF payloadTooLarge(data, bytes) THEN "threw" ELSE "find"

DispatchBegin ==
  /\ pc = "begin"
  /\ Prologue(payloadSize)
  /\ nextId' = nextId + 1
  /\ UNCHANGED <<shell, evalVars, inputVars, now, asyncVars, loopVars, chainVars, callVars, outVars>>

\* Variant that also flags a result holding a response with status timeout.
EmitResponseFlaggingTimeouts ==
  [event |-> event, invocation_id |-> invocationId, executed_at |-> now,
   listeners_executed |-> Len(responses), responses |-> responses,
   errors |-> errors, duration_ms |-> now - startTime,
   timed_out |-> timedOut \/ \E i \in 1..Len(responses) : responses[i].status = "timeout"]

EmitResponse ==
  [event |-> event, invocation_id |-> invocationId, executed_at |-> now,
   listeners_executed |-> Len(responses), responses |-> responses,
   errors |-> errors, duration_ms |-> now - startTime, timed_out |-> timedOut]

\* dispatcher.ts 43-64
DispatchFind ==
  /\ pc = "find"
  /\ entries' = findEntries(event, data, config)
  /\ config' = configAfterFind(event, config)
  /\ IF Len(entries') = 0
     THEN /\ \E failed \in BOOLEAN : LogAndReturn(EmitResponse, failed)
          /\ idx' = idx
     ELSE /\ idx' = 1
          /\ pc' = "loop"
          /\ UNCHANGED outVars
  /\ UNCHANGED <<shell, evalVars, event, data, payloadSize, timeout, mode, now, nextId,
                 asyncVars, runVars, responses, errors,
                 timedOut, globalExhausted, chainVars, callVars>>

\* dispatcher.ts 66-89: the head of the loop over the entries, up to the await.
DispatchLoop ==
  /\ pc = "loop"
  /\ IF idx > Len(entries)
     THEN /\ pc' = "finish"
          /\ UNCHANGED <<timedOut, globalExhausted, chainVars, callVars>>
     ELSE IF globalBudgetExhausted(now - startTime, effectiveTimeout)
     THEN /\ timedOut' = TRUE
          /\ globalExhausted' = TRUE
          /\ pc' = "finish"
          /\ UNCHANGED <<chainVars, callVars>>
     ELSE IF isChainConfig(entries[idx])
     THEN /\ chainTimeout' = chainTimeoutOf(entries[idx], effectiveTimeout,
                               effectiveTimeout - (now - startTime))
          /\ pc' = "chainBegin"
          /\ UNCHANGED <<timedOut, globalExhausted, callVars, chainStart, cidx,
                         cResponses, cErrors, chainResults, chainTimedOut>>
     ELSE /\ call' = [listener |-> entries[idx],
                      data |-> Coalesce(data, EmptyObject),
                      timeout |-> listenerTimeoutOf(entries[idx], effectiveTimeout,
                                    effectiveTimeout - (now - startTime)),
                      invocationId |-> invocationId,
                      entry |-> idx, member |-> 0, at |-> now]
          /\ calls' = Append(calls, call')
          /\ pc' = "exec"
          /\ UNCHANGED <<timedOut, globalExhausted, chainVars, ret>>
  /\ UNCHANGED <<shell, evalVars, inputVars, now, nextId, asyncVars, runVars, entries, idx, responses,
                 errors, outVars>>

\* dispatcher.ts 327-345: executeListener, by listener type.  The caller
\* awaits the promise: it goes on when the listener has answered.
ExecuteShellWith(awaited) ==
  /\ pc = "exec"
  /\ call.listener.type = "shell"
  /\ \E child \in Children :
       LET r == executeShellListener(call.listener, call.timeout, child)
       IN /\ ret' = [threw |-> FALSE, response |-> r.response]
          /\ now' = IF awaited THEN now + r.elapsed ELSE now
  /\ pc' = "return"
  /\ UNCHANGED <<shell, evalVars, inputVars, nextId, asyncVars, runVars, loopVars, chainVars, call,
                 calls, outVars>>

\* Variant that goes on while the child is still running.
ExecuteShellDetached == ExecuteShellWith(FALSE)

ExecuteShell == ExecuteShellWith(TRUE)

ExecuteTemplate ==
  /\ pc = "exec"
  /\ call.listener.type = "template"
  /\ \E file \in Files :
       LET r == executeTemplateListener(call.listener, file)
       IN /\ ret' = [threw |-> FALSE, response |-> r.response]
          /\ now' = now + r.elapsed
  /\ pc' = "return"
  /\ UNCHANGED <<shell, evalVars, inputVars, nextId, asyncVars, runVars, loopVars, chainVars, call,
                 calls, outVars>>

ExecuteMcp ==
  /\ pc = "exec"
  /\ call.listener.type = "mcp"
  /\ ret' = [threw |-> FALSE, response |-> executeMcpListener(call.listener, call.data).response]
  /\ pc' = "return"
  /\ UNCHANGED <<shell, evalVars, inputVars, now, nextId, asyncVars, runVars, loopVars, chainVars,
                 call, calls, outVars>>

\* The default branch: throw new Error("Unknown listener type")
ExecuteUnknown ==
  /\ pc = "exec"
  /\ call.listener.type \notin {"shell", "template", "mcp"}
  /\ ret' = [threw |-> TRUE, response |-> Undefined]
  /\ pc' = "return"
  /\ UNCHANGED <<shell, evalVars, inputVars, now, nextId, asyncVars, runVars, loopVars, chainVars,
                 call, calls, outVars>>

\* Variant whose synthetic response has status timeout.
SyntheticTimeout(listener, errorType) ==
  ListenerResponse(listener, listener.type, "timeout", Null, 0,
                   ListenerError(listener, errorType))

\* The synthetic response of a catch block (dispatcher.ts 99-115, 179-195).
SyntheticResponse(listener, errorType) ==
  ListenerResponse(listener, listener.type, "error", Null, 0,
                   ListenerError(listener, errorType))

\* dispatcher.ts 89-117, after the await: the result is pushed (or the thrown
\* error converted) and the loop goes on to the next entry.
ListenerReturnWith(stops) ==
  /\ pc = "return"
  /\ call.member = 0
  /\ IF ret.threw
     THEN /\ errors' = Append(errors, ListenerError(call.listener, "execution_error"))
          /\ responses' =
               Append(responses, SyntheticResponse(call.listener, "execution_error"))
     ELSE /\ responses' = Append(responses, ret.response)
          /\ errors' =
               IF ret.response.status \in {"error", "timeout"}
                  /\ ret.response.error # Undefined
               THEN Append(errors, ret.response.error)
               ELSE errors
  /\ IF stops /\ (ret.threw \/ ret.response.status \in {"error", "timeout"})
     THEN pc' = "finish" /\ idx' = idx
     ELSE pc' = "loop" /\ idx' = idx + 1
  /\ call' = Undefined
  /\ ret' = Undefined
  /\ UNCHANGED <<shell, evalVars, inputVars, now, nextId, asyncVars, runVars, entries, timedOut,
                 globalExhausted, chainVars, calls, outVars>>

\* Variant that leaves the loop after a failed listener (isolation fails under it).
ListenerReturnAborting == ListenerReturnWith(TRUE)

DispatchListenerReturn == ListenerReturnWith(FALSE)

(***************************************************************************)
(* executeChain                                                            *)
(***************************************************************************)
\* dispatcher.ts 144-147: the chain's clock and its fresh accumulators.
ChainBeginWith(accumulated) ==
  /\ pc = "chainBegin"
  /\ chainStart' = now
  /\ cidx' = 1
  /\ cResponses' = << >>
  /\ cErrors' = << >>
  /\ chainResults' = accumulated
  /\ chainTimedOut' = FALSE
  /\ pc' = "chainLoop"
  /\ UNCHANGED <<shell, evalVars, inputVars, now, nextId, asyncVars, runVars, loopVars, chainTimeout,
                 callVars, outVars>>

\* Variant that keeps the previous chain's results (the leak property fails under it).
ChainBeginKeepingResults == ChainBeginWith(chainResults)

ChainBegin == ChainBeginWith(<< >>)

\* dispatcher.ts 149-167: the head of the loop over the members, up to the await.
ChainLoop ==
  /\ pc = "chainLoop"
  /\ IF cidx > Len(entries[idx].chain)
     THEN /\ pc' = "chainReturn"
          /\ UNCHANGED <<chainTimedOut, callVars, data>>
     ELSE IF chainBudgetExhausted(now - chainStart, chainTimeout)
     THEN /\ chainTimedOut' = TRUE
          /\ pc' = "chainReturn"
          /\ UNCHANGED <<callVars, data>>
     ELSE /\ call' = [listener |-> entries[idx].chain[cidx],
                      data |-> enrichedData(Coalesce(data, EmptyObject), chainResults),
                      timeout |-> memberTimeoutOf(entries[idx].chain[cidx], chainTimeout,
                                    chainTimeout - (now - chainStart)),
                      invocationId |-> invocationId,
                      entry |-> idx, member |-> cidx, at |-> now]
          /\ data' = dataAfterEnrich(data, chainResults)
          /\ calls' = Append(calls, call')
          /\ pc' = "exec"
          /\ UNCHANGED <<chainTimedOut, ret>>
  /\ UNCHANGED <<shell, evalVars, config, event, payloadSize, timeout, mode, now, nextId,
                 asyncVars, runVars, loopVars, chainStart,
                 chainTimeout, cidx, cResponses, cErrors, chainResults, outVars>>

\* dispatcher.ts 167-198, after the await: fail-fast on error, timeout or throw.
ChainMemberReturn ==
  /\ pc = "return"
  /\ call.member # 0
  /\ IF ret.threw
     THEN /\ cErrors' =
               Append(cErrors, ListenerError(call.listener, "chain_execution_error"))
          /\ cResponses' =
               Append(cResponses,
                      SyntheticResponse(call.listener, "chain_execution_error"))
          /\ pc' = "chainReturn"
          /\ UNCHANGED <<chainResults, cidx>>
     ELSE /\ cResponses' = Append(cResponses, ret.response)
          /\ chainResults' = Append(chainResults, ret.response)
          /\ IF memberStopsChain(ret.response)
             THEN /\ cErrors' = IF ret.response.error # Undefined
                                THEN Append(cErrors, ret.response.error)
                                ELSE cErrors
                  /\ pc' = "chainReturn"
                  /\ cidx' = cidx
             ELSE /\ cidx' = cidx + 1
                  /\ pc' = "chainLoop"
                  /\ cErrors' = cErrors
  /\ call' = Undefined
  /\ ret' = Undefined
  /\ UNCHANGED <<shell, evalVars, inputVars, now, nextId, asyncVars, runVars, loopVars, chainStart,
                 chainTimeout, chainTimedOut, calls, outVars>>

\* dispatcher.ts 78-84: the chain's responses and errors join the call's; a
\* chain that reports timedOut ends the loop over the entries.
ChainReturnWith(chainErrors) ==
  /\ pc = "chainReturn"
  /\ responses' = responses \o cResponses
  /\ errors' = errors \o chainErrors
  /\ IF chainTimedOut
     THEN /\ timedOut' = TRUE
          /\ pc' = "finish"
          /\ idx' = idx
     ELSE /\ timedOut' = timedOut
          /\ pc' = "loop"
          /\ idx' = idx + 1
  /\ UNCHANGED <<shell, evalVars, inputVars, now, nextId, asyncVars, runVars, entries, globalExhausted,
                 chainVars, callVars, outVars>>

\* Variant that drops the errors of the chain.
ChainReturnWithoutErrors == ChainReturnWith(<< >>)

DispatchChainReturn == ChainReturnWith(cErrors)

\* dispatcher.ts 120-133
DispatchFinish ==
  /\ pc = "finish"
  /\ \E failed \in BOOLEAN : LogAndReturn(EmitResponse, failed)
  /\ UNCHANGED <<shell, evalVars, inputVars, now, nextId, asyncVars, runVars, loopVars, chainVars,
                 callVars>>

(***************************************************************************)
(* dispatchAsync                                                           *)
(***************************************************************************)
\* dispatcher.ts 210-220
AsyncBegin ==
  /\ apc = "begin"
  /\ nextId' = nextId + 1
  /\ asyncId' = newInvocationId(nextId)
  /\ apc' = IF payloadTooLarge(data, payloadSize) THEN "threw" ELSE "find"
  /\ UNCHANGED <<asyncResponse, rejection>>
  /\ UNCHANGED <<shell, evalVars, inputVars, now, pc, runVars, loopVars, chainVars, callVars, outVars>>

\* Variant that counts the entries whatever their conditions (the registered
\* count property fails under it).
AsyncResponseCountingAll(found) ==
  [event |-> event, mode |-> "async", invocation_id |-> asyncId,
   status |-> "enqueued",
   listeners_registered |-> Len(findAllEntriesForEvent(event, config))]

\* dispatcher.ts 232-239
EmitAsyncResponse(found) ==
  [event |-> event, mode |-> "async", invocation_id |-> asyncId,
   status |-> "enqueued", listeners_registered |-> Len(found)]

\* What the caller may have made of the payload while dispatchAsync awaited
\* findEntries: the caller holds the object and runs before dispatch measures
\* it again at line 34.
SizesAtDispatch == {payloadSize, MAX_PAYLOAD_SIZE_BYTES + 1}

\* dispatcher.ts 222-239: the background dispatch is started (it runs to its
\* first await) when there is an entry, and the enqueued response is returned.
\* `onRejection` is what becomes of a rejection of the promise dispatch returned.
AsyncEnqueueWith(onRejection) ==
  /\ apc = "find"
  /\ config' = configAfterFind(event, config)
  /\ LET found == findEntries(event, data, config)
     IN /\ asyncResponse' = EmitAsyncResponse(found)
        /\ IF Len(found) > 0
           THEN /\ \E bytes \in SizesAtDispatch : Prologue(bytes)
                /\ nextId' = nextId + 1
                /\ rejection' = IF pc' = "threw" THEN onRejection ELSE rejection
           ELSE UNCHANGED <<pc, runVars, nextId, rejection>>
  /\ apc' = "returned"
  /\ UNCHANGED <<shell, evalVars, event, data, payloadSize, timeout, mode, now, asyncId,
                 loopVars, chainVars, callVars, outVars>>

\* Variant without the .catch of line 227 (the rejection is left unhandled).
AsyncEnqueueUncaught == AsyncEnqueueWith("unhandled")

AsyncEnqueue == AsyncEnqueueWith("handled")

Next ==
  \/ DispatchBegin
  \/ DispatchFind
  \/ DispatchLoop
  \/ ExecuteShell
  \/ ExecuteTemplate
  \/ ExecuteMcp
  \/ ExecuteUnknown
  \/ DispatchListenerReturn
  \/ ChainBegin
  \/ ChainLoop
  \/ ChainMemberReturn
  \/ DispatchChainReturn
  \/ DispatchFinish
  \/ AsyncBegin
  \/ AsyncEnqueue

Spec == Init /\ [][Next]_vars

(***************************************************************************)
(* The functions of the matching and of the condition evaluator, applied   *)
(* on their own to arguments drawn from the sets below.                    *)
(***************************************************************************)
\* No dispatch is in progress.
NoDispatch ==
  /\ config = ConfigMixed /\ event = EventAB /\ data = Undefined
  /\ payloadSize = 0 /\ timeout = Undefined /\ mode = "sync"
  /\ now = 0 /\ nextId = 1
  /\ apc = "idle" /\ asyncId = << >> /\ asyncResponse = Undefined
  /\ rejection = "none"
  /\ pc = "idle"
  /\ startTime = 0 /\ invocationId = << >> /\ effectiveTimeout = 0
  /\ entries = << >> /\ idx = 0 /\ responses = << >> /\ errors = << >>
  /\ timedOut = FALSE /\ globalExhausted = FALSE
  /\ chainStart = 0 /\ chainTimeout = 0 /\ cidx = 0 /\ cResponses = << >>
  /\ cErrors = << >> /\ chainResults = << >> /\ chainTimedOut = FALSE
  /\ call = Undefined /\ ret = Undefined /\ calls = << >>
  /\ response = Undefined /\ log = << >> /\ logFile = << >>

dispatchVars ==
  <<inputVars, now, nextId, asyncVars, pc, runVars, loopVars, chainVars, callVars,
    outVars>>

MatchPatterns ==
  { <<"a", ".", "*">>, <<"a", ".", "b">>, <<"a">>, <<"*">>, <<".", "*">>,
    <<"a", "*">>, <<"*", ".", "b">>, <<"a", ".", "*", ".", "c">>,
    <<"a", ".", "b", ".", "*">> }

MatchEvents ==
  { <<"a", ".", "b">>, <<"a", ".", "b", ".", "c">>, <<"a">>, <<"a", ".">>,
    <<"a", "b", ".", "c">>, <<"x", ".", "y">>, <<"a", ".", "*">>, <<".", "b">>,
    <<"a", ".", "b", ".", "*">> }

MatchInputs == [pattern : MatchPatterns, event : MatchEvents]

MaxPriority == 2

\* Two entries under a wildcard pattern declared first, two under the exact
\* name, one under another name; a chain and two conditions among them.
FindConfig(p1, p2, p3, p4) ==
  [default_timeout |-> Undefined,
   events |->
     << [pattern |-> PatternAStar,
         entries |->
           << Listener("w1", "shell", p1, Undefined, Undefined),
              Chain(<< Listener("m1", "template", 1, Undefined, Undefined) >>,
                    p2, Undefined, WhenOk) >>],
        [pattern |-> EventXY,
         entries |-> << Listener("z", "shell", 1, Undefined, Undefined) >>],
        [pattern |-> EventAB,
         entries |->
           << Listener("e1", "mcp", p3, Undefined, WhenS),
              Listener("e2", "template", p4, Undefined, Undefined) >>] >>]

FindConfigs ==
  { FindConfig(p1, p2, p3, p4) :
      p1 \in 1..MaxPriority, p2 \in 1..MaxPriority,
      p3 \in 1..MaxPriority, p4 \in 1..MaxPriority }

FindInputs ==
  [config : FindConfigs, event : {EventAB, EventAC, EventXY},
   data : {Undefined, DataOk, DataNo}]

\* s == 1
ExprNoDot == <<"s", " ", "=", "=", " ", "1">>

\* jq [[[
ExprBrackets == <<"j", "q", " ", "[", "[", "[">>

\* .v | keys
ExprPipeOther == <<".", "v", " ", "|", " ", "k", "e", "y", "s">>

\* .v[0]
ExprIndex == <<".", "v", "[", "0", "]">>

\* .v and .z
ExprAnd == <<".", "v", " ", "a", "n", "d", " ", ".", "z">>

\* Expressions that are none of: a path, a path compared with a literal, a
\* path piped to length, a path piped to length compared with a literal.
OutsideGrammar == {ExprNoDot, ExprBrackets, ExprPipeOther, ExprIndex, ExprAnd}

\* .v
PathV == <<".", "v">>

\* .o.v
PathOV == <<".", "o", ".", "v">>

\* .q.v
PathQV == <<".", "q", ".", "v">>

\* .z.v
PathZV == <<".", "z", ".", "v">>

BarePaths == {PathV, PathOV, PathQV, PathZV}

\* .v == 2
CompEq == <<".", "v", " ", "=", "=", " ", "2">>

\* .v != 2
CompNe == <<".", "v", " ", "!", "=", " ", "2">>

\* .v > 2
CompGt == <<".", "v", " ", ">", " ", "2">>

\* .v < 2
CompLt == <<".", "v", " ", "<", " ", "2">>

\* .v >= 2
CompGe == <<".", "v", " ", ">", "=", " ", "2">>

\* .v <= 2
CompLe == <<".", "v", " ", "<", "=", " ", "2">>

Comparisons == {CompEq, CompNe, CompGt, CompLt, CompGe, CompLe}

\* .v | length
LengthV == <<".", "v", " ", "|", " ", "l", "e", "n", "g", "t", "h">>

\* .v | length > 2
LengthGt ==
  <<".", "v", " ", "|", " ", "l", "e", "n", "g", "t", "h", " ", ">", " ", "2">>

\* .v | length == 3
LengthEq ==
  <<".", "v", " ", "|", " ", "l", "e", "n", "g", "t", "h", " ", "=", "=", " ", "3">>

\* .v | length < 1
LengthLt ==
  <<".", "v", " ", "|", " ", "l", "e", "n", "g", "t", "h", " ", "<", " ", "1">>

LengthPipes == {LengthV, LengthGt, LengthEq, LengthLt}

CondExpressions == OutsideGrammar \cup BarePaths \cup Comparisons \cup LengthPipes

\* The values the field v takes; Undefined stands for a payload without it.
CondValues ==
  <<Undefined, Null, Bool(FALSE), Bool(TRUE), Str(<< >>), Str(<<"o", "k">>),
    Str(<<"a", "b", "c">>), Arr(<< >>), Arr(<<Num(1), Num(2), Num(3)>>), EmptyObject,
    Num(0 - 1), Num(0), Num(2), Num(3), Normalise(15, 10)>>

Samples == 1..Len(CondValues)

VKey == <<"v">>

OKey == <<"o">>

ZKey == <<"z">>

\* { v: value, o: { v: value }, z: null }, without v when value is Undefined
CondData(value) ==
  LET inner == IF value.t = "undefined" THEN EmptyObject
               ELSE Obj([k \in {VKey} |-> value])
  IN Obj([k \in (IF value.t = "undefined" THEN {} ELSE {VKey}) \cup {OKey, ZKey} |->
            IF k = VKey THEN value ELSE IF k = OKey THEN inner ELSE Null])

\* An expression and the payload made of the sample-th value.
CondInput(expression, sample) ==
  [expression |-> expression, data |-> CondData(CondValues[sample]),
   sample |-> sample]

\* part_007 65-66: command.split(/\s+/)[0], the text before the first run of
\* whitespace, which is empty when the command begins with whitespace.
executable(command) ==
  LET spaces == {i \in 1..Len(command) : command[i] = " "}
  IN IF spaces = {} THEN command
     ELSE Substring(command, 1, (CHOOSE i \in spaces : \A j \in spaces : i <= j) - 1)

(***************************************************************************)
(* config/loader.ts                                                        *)
(***************************************************************************)
PRIORITY_DEFAULT == 10

RECURSIVE basename(_)
\* path.basename: the text after the last "/"
basename(p) == IF Includes(p, "/") THEN basename(DropFirst(p, IndexOf(p, "/"))) ELSE p

\* loader.ts 29-40
autoGenerateName(listener) ==
  IF listener.type = "shell" /\ ~Missing(listener.command)
  THEN <<"s", "h", "e", "l", "l", "-">> \o basename(listener.command.v)
  ELSE IF listener.type = "template" /\ ~Missing(listener.path)
  THEN <<"t", "e", "m", "p", "l", "a", "t", "e", "-">> \o basename(listener.path.v)
  ELSE IF listener.type = "mcp" /\ ~Missing(listener.server) /\ ~Missing(listener.tool)
  THEN listener.server.v \o <<"/">> \o listener.tool.v
  ELSE <<"u", "n", "k", "n", "o", "w", "n">>

\* listener.name || autoGenerateName(listener)
nameOrGenerated(listener) ==
  IF Missing(listener.name) THEN autoGenerateName(listener) ELSE listener.name.v

RECURSIVE mapSet(_, _, _)
\* Map.prototype.set on the entries of a Map in insertion order: a key that
\* is present keeps its place and takes the new value.
mapSet(map, key, value) ==
  IF Len(map) = 0 THEN <<[key |-> key, value |-> value]>>
  ELSE IF map[1].key = key
       THEN <<[key |-> key, value |-> value]>> \o Tail(map)
       ELSE <<map[1]>> \o mapSet(Tail(map), key, value)

RECURSIVE overlay(_, _)
\* loader.ts 49-52, 54-58: byName.set(name, { ...listener, name }) for each
overlay(byName, listeners) ==
  IF Len(listeners) = 0 THEN byName
  ELSE overlay(mapSet(byName, nameOrGenerated(listeners[1]),
                      [listeners[1] EXCEPT !.name = Str(nameOrGenerated(listeners[1]))]),
               Tail(listeners))

priorityOrDefault(listener) == Coalesce(listener.priority, Num(PRIORITY_DEFAULT)).n

RECURSIVE insertMerged(_, _)
insertMerged(sorted, e) ==
  IF Len(sorted) = 0 THEN <<e>>
  ELSE IF priorityOrDefault(sorted[1]) - priorityOrDefault(e) <= 0
       THEN <<sorted[1]>> \o insertMerged(Tail(sorted), e)
       ELSE <<e>> \o sorted

RECURSIVE sortMerged(_)
\* loader.ts 61-63: Array.from(byName.values()).sort(...), a stable sort
sortMerged(values) ==
  IF Len(values) = 0 THEN << >>
  ELSE insertMerged(sortMerged(SubSeq(values, 1, Len(values) - 1)), values[Len(values)])

mapValues(byName) == [i \in 1..Len(byName) |-> byName[i].value]

\* Variant in which the global definition overwrites the project's.
mergeGlobalLast(globalListeners, projectListeners) ==
  sortMerged(mapValues(overlay(overlay(<< >>, projectListeners), globalListeners)))

\* loader.ts 42-64
mergeListeners(globalListeners, projectListeners) ==
  sortMerged(mapValues(overlay(overlay(<< >>, globalListeners), projectListeners)))

MergeListener(name, command, priority) ==
  [name |-> name, type |-> "shell", command |-> Str(command), priority |-> priority]

\* Listeners of the two files: two named "a", one "b" of low priority, one
\* without name or priority whose generated name is "shell-a", one named so.
MergeSamples ==
  << MergeListener(Str(<<"a">>), <<"/", "g", "/", "a">>, Num(10)),
     MergeListener(Str(<<"a">>), <<".", "/", "p">>, Num(15)),
     MergeListener(Str(<<"b">>), <<"/", "g", "/", "b">>, Num(5)),
     MergeListener(Undefined, <<"/", "g", "/", "a">>, Undefined),
     MergeListener(Str(<<"s", "h", "e", "l", "l", "-", "a">>), <<".", "/", "q">>, Num(20)) >>

MaxMerge == 2

MergeLists ==
  UNION {[1..n -> 1..Len(MergeSamples)] : n \in 0..MaxMerge}

MergeSampled(picks) == [k \in 1..Len(picks) |-> MergeSamples[picks[k]]]

(***************************************************************************)
(* config/validator.ts and config/schema.ts                                *)
(***************************************************************************)
VALID_LISTENER_TYPES == {"shell", "template", "mcp"}

PRIORITY_MIN == 0

PRIORITY_MAX == 100

REQUIRED_FIELDS_BY_TYPE ==
  [type \in VALID_LISTENER_TYPES |->
     IF type = "shell" THEN <<"command">>
     ELSE IF type = "template" THEN <<"path">>
     ELSE <<"server", "tool">>]

IsLower(c) == CharCode(c) >= CharCode("a") /\ CharCode(c) <= CharCode("z")

\* [a-z][a-z0-9_]*
IsSegment(s) ==
  /\ Len(s) > 0
  /\ IsLower(s[1])
  /\ \A i \in 2..Len(s) : IsLower(s[i]) \/ IsDigit(s[i]) \/ s[i] = "_"

\* /^[a-z][a-z0-9_]*(\.[a-z][a-z0-9_]*)*$/
IsDotted(s) == \A part \in {SplitOn(s, ".")[i] : i \in 1..Len(SplitOn(s, "."))} : IsSegment(part)

\* schema.ts 17: the dotted name followed by ".*"
WILDCARD_EVENT_PATTERN(s) ==
  EndsWith(s, <<".", "*">>) /\ IsDotted(Substring(s, 1, Len(s) - 2))

\* schema.ts 14: the dotted name, with or without ".*" after it
EVENT_NAME_PATTERN(s) == IsDotted(s) \/ WILDCARD_EVENT_PATTERN(s)

\* An error of the validator: what it is about, the position of the entry
\* in the list of its event (0 for the event itself) and the field named.
ValidationError(kind, entry, field) == [kind |-> kind, entry |-> entry, field |-> field]

RECURSIVE missingFields(_, _, _)
\* validator.ts 104-112
missingFields(listener, i, required) ==
  IF Len(required) = 0 THEN << >>
  ELSE (IF Missing(listener[required[1]])
        THEN <<ValidationError("missing_field", i, required[1])>> ELSE << >>)
       \o missingFields(listener, i, Tail(required))

\* validator.ts 95: a type that is set and is one of the three
hasValidType(listener) ==
  "type" \in DOMAIN listener /\ listener.type \in VALID_LISTENER_TYPES

\* validator.ts 163-172: a name seen before under this event, among the
\* listeners that reached the end of the loop body.
isDuplicate(listeners, i) ==
  /\ listeners[i].name # ""
  /\ \E j \in 1..(i - 1) :
       hasValidType(listeners[j]) /\ listeners[j].name = listeners[i].name

\* validator.ts 179-206; `files.command` is whether the executable exists
\* or is one of the system commands of isSystemCommand.
validateShellPath(listener, i, files) ==
  IF executable(listener.command.v) # << >> /\ ~files.command
  THEN <<ValidationError("command_not_found", i, "command")>>
  ELSE << >>

\* validator.ts 208-232
validateTemplatePath(listener, i, files) ==
  IF files.template = "missing"
  THEN <<ValidationError("template_not_found", i, "path")>>
  ELSE IF files.template = "oversize"
  THEN <<ValidationError("template_size", i, "path")>>
  ELSE << >>

\* validator.ts 91-172: the body of the loop over the listeners of an event.
validateListener(listeners, i, files) ==
  LET listener == listeners[i]
  IN IF ~hasValidType(listener)
     THEN <<ValidationError("invalid_type", i, "type")>>
     ELSE missingFields(listener, i, REQUIRED_FIELDS_BY_TYPE[listener.type])
          \o (IF listener.priority < PRIORITY_MIN \/ listener.priority > PRIORITY_MAX
              THEN <<ValidationError("priority", i, "priority")>> ELSE << >>)
          \o (IF listener.timeout.t \notin {"undefined", "number"}
              THEN <<ValidationError("timeout", i, "timeout")>> ELSE << >>)
          \o (IF listener.type = "shell" /\ ~Missing(listener.command)
              THEN validateShellPath(listener, i, files) ELSE << >>)
          \o (IF listener.type = "template" /\ ~Missing(listener.path)
              THEN validateTemplatePath(listener, i, files) ELSE << >>)
          \o (IF listener.type = "mcp" /\ ~Missing(listener.server)
                 /\ listener.server.t # "string"
              THEN <<ValidationError("server", i, "server")>> ELSE << >>)
          \o (IF listener.type = "mcp" /\ ~Missing(listener.tool)
                 /\ listener.tool.t # "string"
              THEN <<ValidationError("tool", i, "tool")>> ELSE << >>)
          \o (IF isDuplicate(listeners, i)
              THEN <<ValidationError("duplicate_name", i, "name")>> ELSE << >>)

RECURSIVE validateListeners(_, _, _)
validateListeners(listeners, i, files) ==
  IF i > Len(listeners) THEN << >>
  ELSE validateListener(listeners, i, files) \o validateListeners(listeners, i + 1, files)

\* validator.ts 56-177 for a configuration of one event; `files.yaml` is the
\* number of parse errors of the two files.
validateConfig(eventName, listeners, files) ==
  [k \in 1..files.yaml |-> ValidationError("yaml", 0, "")]
  \o (IF ~EVENT_NAME_PATTERN(eventName) /\ ~WILDCARD_EVENT_PATTERN(eventName)
      THEN <<ValidationError("event_name", 0, "")>> ELSE << >>)
  \o validateListeners(listeners, 1, files)

\* The entries the validator is given: the four chains of chain.test.ts
\* 215-285, then listeners.
ValidatorEntries ==
  << Chain(<< Listener("step1", "shell", 1, Undefined, Undefined),
              Listener("step2", "shell", 2, Undefined, Undefined) >>,
           5, Undefined, Undefined),
     Chain(<< Listener("bad", "mcp", 1, Undefined, Undefined) >>, 5, Undefined, Undefined),
     Chain(<< >>, 5, Undefined, Undefined),
     Chain(<< Listener("step1", "shell", 1, Undefined, WhenOk) >>, 5, Undefined, Undefined),
     Listener("hook", "shell", 10, Undefined, Undefined),
     Listener("hook", "mcp", 0, Num(100), Undefined),
     Listener("far", "template", PRIORITY_MAX + 1, Undefined, Undefined),
     Listener("web", "http", 10, Undefined, Undefined),
     [Listener("bare", "shell", 10, Undefined, Undefined) EXCEPT !.command = Undefined] >>

Picks ==
  {<<i>> : i \in 1..Len(ValidatorEntries)}
  \cup {<<i, j>> : i \in {1, 5}, j \in 1..Len(ValidatorEntries)}

Picked(picks) == [k \in 1..Len(picks) |-> ValidatorEntries[picks[k]]]

ValidatorInputs ==
  [eventName : {EventAB, <<"A">>},
   picks : Picks,
   files : [command : BOOLEAN, template : {"found", "missing", "oversize"},
            yaml : {0, 1}]]

AKey == <<"a">>

BKey == <<"b">>

\* { a: { b: "X" }, s: "ok" }
NestedData ==
  Obj([k \in {AKey, SKey} |->
        IF k = AKey THEN Obj([j \in {BKey} |-> Str(<<"X">>)]) ELSE Str(<<"o", "k">>)])

Reference(opener, key) == opener \o key \o <<"}">>

\* { s: "${env.HOME}" }: a payload whose value is the text of a reference.
CraftedData == Obj([k \in {SKey} |-> Str(Reference(EnvRef, HomeKey))])

TemplateData == <<NestedData, EmptyObject, CraftedData>>

\* "${data.a.b}", "${data.s}", "to ${data.s}!", "${env.HOME}", "${env.NONE}"
Templates ==
  << Reference(DataRef, <<"a", ".", "b">>),
     Reference(DataRef, SKey),
     <<"t", "o", " ">> \o Reference(DataRef, SKey) \o <<"!">>,
     Reference(EnvRef, HomeKey),
     Reference(EnvRef, <<"N", "O", "N", "E">>) >>

HasListenersBuilds == {"standalone", "dispatcher"}

HasListenersInputs ==
  [config : FindConfigs, event : {EventAB, EventAC, EventXY, <<"n">>},
   build : HasListenersBuilds]

\* The timeout argument, default_timeout, the entry's own timeout (the
\* validator asks only that it be a number) and the time already spent.
AllotInputs ==
  [timeout : {Undefined, Num(200)},
   default_timeout : {Undefined, Num(300)},
   entry : {[timeout |-> Undefined], [timeout |-> Num(0)], [timeout |-> Num(100)],
            [timeout |-> Num(400)]},
   elapsed : {0, 60, 199, 200, 299, 5000}]

\* dispatcher.ts 29, 67-86: the budget of the call, whether the loop ends at
\* this entry, and what the entry is allotted when it does not.
allot(timeoutArg, configArg, entry, elapsed) ==
  LET effective == effectiveTimeoutOf(timeoutArg, configArg)
      exhausted == globalBudgetExhausted(elapsed, effective)
  IN [effectiveTimeout |-> effective,
      exhausted |-> exhausted,
      allotted |-> IF exhausted THEN 0
                   ELSE listenerTimeoutOf(entry, effective, effective - elapsed)]

(***************************************************************************)
(* tools/emit.ts (cli.ts 203-285): the handler of the emit tool.           *)
(***************************************************************************)
AsyncMode == <<"a", "s", "y", "n", "c">>

\* cli.ts 264-273: the result of a disabled plugin.
DisabledResult(eventArg) ==
  [event |-> eventArg, invocation_id |-> <<"d", "i", "s", "a", "b", "l", "e", "d">>,
   listeners_executed |-> 0, responses |-> << >>, errors |-> << >>,
   duration_ms |-> 0, timed_out |-> FALSE]

\* What the handler does in the end: it throws, returns a result of its own,
\* or returns what dispatch or dispatchAsync gives for the event.
Outcome(does, result) == [does |-> does, result |-> result]

\* Variant that looks at the mode before it looks at config.enabled.
emitHandlerModeFirst(eventArg, modeArg, enabledArg) ==
  IF eventArg.t # "string" THEN Outcome("throw", Undefined)
  ELSE IF Len(eventArg.v) = 0 \/ ~EVENT_NAME_PATTERN(eventArg.v)
  THEN Outcome("throw", Undefined)
  ELSE IF Coalesce(modeArg, Str(<<"s", "y", "n", "c">>)).v = AsyncMode
  THEN Outcome("dispatchAsync", Undefined)
  ELSE IF enabledArg.t = "boolean" /\ ~enabledArg.v
  THEN Outcome("return", DisabledResult(eventArg.v))
  ELSE Outcome("dispatch", Undefined)

\* cli.ts 244-281: the event must be a non-empty string (253) that matches
\* the pattern of event names (257); config.enabled === false (263); the
\* mode, sync when absent (251, 276).
emitHandler(eventArg, modeArg, enabledArg) ==
  IF eventArg.t # "string" THEN Outcome("throw", Undefined)
  ELSE IF Len(eventArg.v) = 0 \/ ~EVENT_NAME_PATTERN(eventArg.v)
  THEN Outcome("throw", Undefined)
  ELSE IF enabledArg.t = "boolean" /\ ~enabledArg.v
  THEN Outcome("return", DisabledResult(eventArg.v))
  ELSE IF Coalesce(modeArg, Str(<<"s", "y", "n", "c">>)).v = AsyncMode
  THEN Outcome("dispatchAsync", Undefined)
  ELSE Outcome("dispatch", Undefined)

\* a.b, a.*, "A.b", "", a number, no event
EmitEvents ==
  << Str(EventAB), Str(PatternAStar), Str(<<"A", ".", "b">>), Str(<< >>), Num(7),
     Undefined >>

EmitModes == << Undefined, Str(<<"s", "y", "n", "c">>), Str(AsyncMode) >>

EnabledValues == << Undefined, Bool(TRUE), Bool(FALSE) >>

EvalInit ==
  /\ NoDispatch
  /\ NoShell
  /\ output = [done |-> FALSE]
  /\ \/ fn = "matchesEvent" /\ input \in MatchInputs
     \/ fn = "findEntries" /\ input \in FindInputs
     \/ /\ fn = "findAllEntriesForEvent"
        /\ input \in [config : FindConfigs, event : {EventAB, EventAC, EventXY}]
     \/ /\ fn = "evaluateCondition"
        /\ \E expression \in CondExpressions : \E sample \in Samples :
             input = CondInput(expression, sample)
     \/ fn = "allot" /\ input \in AllotInputs
     \/ fn = "hasListeners" /\ input \in HasListenersInputs
     \/ fn = "validateConfig" /\ input \in ValidatorInputs
     \/ /\ fn = "mergeListeners"
        /\ \E g \in MergeLists : \E p \in MergeLists :
             input = [globalListeners |-> g, projectListeners |-> p]
     \/ /\ fn = "substituteTemplate"
        /\ \E i \in 1..Len(Templates) : \E j \in 1..Len(TemplateData) :
             input = [template |-> Templates[i], data |-> TemplateData[j]]
     \/ /\ fn = "emitHandler"
        /\ \E i \in 1..Len(EmitEvents) : \E j \in 1..Len(EmitModes) :
           \E k \in 1..Len(EnabledValues) :
             input = [event |-> EmitEvents[i], mode |-> EmitModes[j],
                      enabled |-> EnabledValues[k]]

ApplyMatchesEvent ==
  /\ fn = "matchesEvent"
  /\ ~output.done
  /\ output' = [done |-> TRUE, value |-> matchesEvent(input.pattern, input.event)]
  /\ UNCHANGED <<fn, input, shell, dispatchVars>>

ApplyFindEntries ==
  /\ fn = "findEntries"
  /\ ~output.done
  /\ output' = [done |-> TRUE,
                 value |-> findEntries(input.event, input.data, input.config)]
  /\ input' = [input EXCEPT !.config = configAfterFind(input.event, input.config)]
  /\ UNCHANGED <<fn, shell, dispatchVars>>

ApplyFindAllEntries ==
  /\ fn = "findAllEntriesForEvent"
  /\ ~output.done
  /\ output' = [done |-> TRUE,
                 value |-> findAllEntriesForEvent(input.event, input.config)]
  /\ input' = [input EXCEPT !.config = configAfterFind(input.event, input.config)]
  /\ UNCHANGED <<fn, shell, dispatchVars>>

ApplyEvaluateCondition ==
  /\ fn = "evaluateCondition"
  /\ ~output.done
  /\ output' = [done |-> TRUE,
                 value |-> evaluateCondition(input.expression, input.data)]
  /\ UNCHANGED <<fn, input, shell, dispatchVars>>

ApplySubstituteTemplate ==
  /\ fn = "substituteTemplate"
  /\ ~output.done
  /\ output' = [done |-> TRUE,
                 value |-> substituteTemplate(input.template, input.data)]
  /\ UNCHANGED <<fn, input, shell, dispatchVars>>

ApplyAllot ==
  /\ fn = "allot"
  /\ ~output.done
  /\ output' = [done |-> TRUE,
                 value |-> allot(input.timeout,
                                 [default_timeout |-> input.default_timeout],
                                 input.entry, input.elapsed)]
  /\ UNCHANGED <<fn, input, shell, dispatchVars>>

ApplyHasListeners ==
  /\ fn = "hasListeners"
  /\ ~output.done
  /\ output' = [done |-> TRUE,
                 value |-> hasListenersHandler(input.build, input.event, input.config)]
  /\ UNCHANGED <<fn, input, shell, dispatchVars>>

ApplyValidateConfig ==
  /\ fn = "validateConfig"
  /\ ~output.done
  /\ output' = [done |-> TRUE,
                 value |-> validateConfig(input.eventName, Picked(input.picks),
                                          input.files)]
  /\ UNCHANGED <<fn, input, shell, dispatchVars>>

ApplyMergeListeners ==
  /\ fn = "mergeListeners"
  /\ ~output.done
  /\ output' = [done |-> TRUE,
                 value |-> mergeListeners(MergeSampled(input.globalListeners),
                                          MergeSampled(input.projectListeners))]
  /\ UNCHANGED <<fn, input, shell, dispatchVars>>

ApplyEmitHandler ==
  /\ fn = "emitHandler"
  /\ ~output.done
  /\ output' = [done |-> TRUE,
                 value |-> emitHandler(input.event, input.mode, input.enabled)]
  /\ UNCHANGED <<fn, input, shell, dispatchVars>>

EvalNext ==
  \/ ApplyMatchesEvent
  \/ ApplyFindEntries
  \/ ApplyFindAllEntries
  \/ ApplyEvaluateCondition
  \/ ApplySubstituteTemplate
  \/ ApplyAllot
  \/ ApplyHasListeners
  \/ ApplyValidateConfig
  \/ ApplyMergeListeners
  \/ ApplyEmitHandler

EvalSpec == EvalInit /\ [][EvalNext]_vars

(***************************************************************************)
(* listeners/shell-listener.ts, one call step by step: the callbacks of     *)
(* the two timers and of the child's close and error events.  A timer's    *)
(* callback runs when the timer is due, so time does not pass beyond a     *)
(* pending timer; at the instant it is due a close event may come first.   *)
(***************************************************************************)
TickMs == KILL_GRACE_MS \div 2

MaxShellTicks == 5

ShellTimeouts == {TickMs, 2 * TickMs, 3 * TickMs}

ShellListeners ==
  { Listener("hook", "shell", 1, Undefined, Undefined),
    [Listener("bare", "shell", 1, Undefined, Undefined) EXCEPT !.command = Undefined],
    [Listener("padded", "shell", 1, Undefined, Undefined)
       EXCEPT !.command = Str(<<" ", "r", "u", "n">>)] }

NoTimer == [state |-> "unset", due |-> 0]

ShellInit ==
  /\ NoDispatch
  /\ NoEval
  /\ \E listener \in ShellListeners : \E allotted \in ShellTimeouts :
       shell = [pc |-> "called", listener |-> listener, timeout |-> allotted,
                now |-> 0, child |-> "none", code |-> 0, stdout |-> << >>,
                stderr |-> << >>,
                exitedAt |-> 0, closedAt |-> 0, refused |-> FALSE,
                killed |-> FALSE, timer |-> NoTimer,
                killTimer |-> NoTimer, signals |-> << >>, termAt |-> 0,
                killAt |-> 0, response |-> Undefined]

\* part_007 26-104: the call up to the return of the promise.  A command
\* that cannot be spawned makes the child emit `error`; spawn throws on an
\* empty file name, inside the executor of the promise, which rejects it.
ShellStart ==
  /\ shell.pc = "called"
  /\ IF Missing(shell.listener.command)
     THEN shell' = [shell EXCEPT
            !.pc = "resolved",
            !.response = ListenerResponse(shell.listener, "shell", "error", Null, 0,
                           ListenerError(shell.listener, "invalid_config"))]
     ELSE IF executable(shell.listener.command.v) = << >>
     THEN shell' = [shell EXCEPT !.pc = "rejected"]
     ELSE \E spawned \in {"running", "failing"} :
            shell' = [shell EXCEPT
              !.pc = "waiting",
              !.child = spawned,
              !.timer = [state |-> "pending", due |-> shell.now + shell.timeout]]
  /\ UNCHANGED <<evalVars, dispatchVars>>

\* clearTimeout: a pending timer is cancelled, any other is left as it is.
clearTimeout(timer) ==
  IF timer.state = "pending" THEN [state |-> "cleared", due |-> timer.due] ELSE timer

\* The length of the excerpt of stdout kept in an invalid_output error.
EXCERPT_CHARS == 500

\* JSON.parse on the texts a child prints here: {}, [], true, false, null, a
\* number in digits, a string without escapes; anything else is a SyntaxError.
parseJSON(text) ==
  IF text = <<"{", "}">> THEN [ok |-> TRUE, value |-> EmptyObject]
  ELSE IF text = <<"[", "]">> THEN [ok |-> TRUE, value |-> Arr(<< >>)]
  ELSE IF text = <<"t", "r", "u", "e">> THEN [ok |-> TRUE, value |-> Bool(TRUE)]
  ELSE IF text = <<"f", "a", "l", "s", "e">> THEN [ok |-> TRUE, value |-> Bool(FALSE)]
  ELSE IF text = <<"n", "u", "l", "l">> THEN [ok |-> TRUE, value |-> Null]
  ELSE IF AllDigits(text) /\ (Len(text) = 1 \/ text[1] # "0")
  THEN [ok |-> TRUE, value |-> ParseInt(text)]
  ELSE IF Len(text) >= 2 /\ text[1] = "\"" /\ text[Len(text)] = "\""
          /\ \A i \in 2..(Len(text) - 1) : IsIdentChar(text[i])
  THEN [ok |-> TRUE, value |-> Str(Substring(text, 2, Len(text) - 1))]
  ELSE [ok |-> FALSE, value |-> Undefined]

\* Variant that keeps the whole output (the excerpt property fails under it).
WholeOutput(stdout) == stdout

\* stdout.slice(0, 500)
excerpt(stdout) == Substring(stdout, 1, Min(Len(stdout), EXCERPT_CHARS))

\* stderr || undefined
orUndefined(text) == IF Len(text) = 0 THEN Undefined ELSE Str(text)

ShellError(listener, type, details) ==
  [listener_id |-> listener.name, type |-> type, details |-> details]

\* part_007 111-180: what the close handler resolves the promise with;
\* `byFlag` is whether the killed flag is looked at first.
closeResponse(byFlag, code, stdout, stderr) ==
  IF byFlag /\ shell.killed
  THEN ListenerResponse(shell.listener, "shell", "timeout", Null, shell.now,
                        ShellError(shell.listener, "timeout", orUndefined(stderr)))
  ELSE IF code # 0
  THEN ListenerResponse(shell.listener, "shell", "error", Null, shell.now,
                        ShellError(shell.listener, "execution_error",
                                   orUndefined(stderr)))
  ELSE IF Len(Trim(stdout)) > 0 /\ ~parseJSON(Trim(stdout)).ok
  THEN ListenerResponse(shell.listener, "shell", "error", Null, shell.now,
                        ShellError(shell.listener, "invalid_output",
                                   Str(excerpt(stdout))))
  ELSE ListenerResponse(shell.listener, "shell", "success",
                        IF Len(Trim(stdout)) > 0 THEN parseJSON(Trim(stdout)).value
                        ELSE EmptyObject,
                        shell.now, Undefined)

OutEmpty == << >>

OutBlank == <<" ", " ">>

OutObject == <<"{", "}">>

OutNumber == <<" ", "7", " ">>

OutWord == <<"o", "o", "p", "s">>

\* Text that is not JSON, one character longer than the excerpt.
OutLong == [i \in 1..(EXCERPT_CHARS + 1) |-> "x"]

ShellOutputs == {OutEmpty, OutBlank, OutObject, OutNumber, OutWord, OutLong}

ShellErrOutputs == {<< >>, <<"e", "r", "r">>}

\* part_007 183-200: what the `error` handler resolves the promise with.
errorResponse ==
  ListenerResponse(shell.listener, "shell", "error", Null, shell.now,
                   ShellError(shell.listener, "execution_error", Undefined))

\* part_007 94-104: the callback of the first timer.  `signals` lists the
\* calls of child.kill.  A child of another user refuses the signal: kill
\* then emits `error` on the child, whose handler (183-200) runs inside the
\* call, before the second timer is armed.
ShellTimer ==
  /\ shell.pc \in {"waiting", "resolved"}
  /\ shell.timer.state = "pending"
  /\ shell.now >= shell.timer.due
  /\ \E refuses \in BOOLEAN :
       /\ refuses => shell.child = "running"
       /\ shell' = [shell EXCEPT
            !.killed = TRUE,
            !.signals = Append(shell.signals, "SIGTERM"),
            !.termAt = shell.now,
            !.refused = refuses,
            !.pc = IF refuses THEN "resolved" ELSE @,
            !.response = IF refuses /\ shell.pc = "waiting" THEN errorResponse ELSE @,
            !.timer = [state |-> "fired", due |-> shell.timer.due],
            !.killTimer = [state |-> "pending", due |-> shell.now + KILL_GRACE_MS]]
  /\ UNCHANGED <<evalVars, dispatchVars>>

\* part_007 97-103: the callback of the second timer.
ShellKillTimerWith(sent) ==
  /\ shell.pc \in {"waiting", "resolved"}
  /\ shell.killTimer.state = "pending"
  /\ shell.now >= shell.killTimer.due
  /\ shell' = [shell EXCEPT
       !.signals = shell.signals \o sent,
       !.killAt = shell.now,
       !.killTimer = [state |-> "fired", due |-> shell.killTimer.due]]
  /\ UNCHANGED <<evalVars, dispatchVars>>

\* Variant whose second timer sends nothing.
ShellKillTimerSilent == ShellKillTimerWith(<< >>)

ShellKillTimer == ShellKillTimerWith(<<"SIGKILL">>)

\* The exit codes of a child; -1 stands for the null code of a child ended
\* by a signal.
ExitCodes == {0, 1, 0 - 1}

\* The child process ends while its output streams are still open (a process
\* it started holds them, or the event is still queued): `close` comes later.
ShellExit ==
  /\ shell.pc = "waiting"
  /\ shell.child = "running"
  /\ \E code \in ExitCodes :
       /\ code = 0 - 1 => Len(shell.signals) > 0
       /\ shell' = [shell EXCEPT
            !.child = "exited",
            !.code = code,
            !.exitedAt = shell.now]
  /\ UNCHANGED <<evalVars, dispatchVars>>

\* part_007 106-181: the `close` event of a child that has ended or ends
\* now, with its exit code and what it wrote.  The handler clears both
\* timers; resolve has no effect on a promise that is resolved already.
ShellCloseWith(byFlag) ==
  /\ shell.pc \in {"waiting", "resolved"}
  /\ shell.child \in {"running", "exited"}
  /\ \E code \in ExitCodes : \E stdout \in ShellOutputs :
     \E stderr \in ShellErrOutputs :
       /\ shell.child = "exited" => code = shell.code
       /\ code = 0 - 1 => Len(shell.signals) > 0
       /\ shell' = [shell EXCEPT
            !.pc = "resolved",
            !.child = "closed",
            !.code = code,
            !.stdout = stdout,
            !.stderr = stderr,
            !.exitedAt = IF shell.child = "exited" THEN @ ELSE shell.now,
            !.closedAt = shell.now,
            !.timer = clearTimeout(shell.timer),
            !.killTimer = clearTimeout(shell.killTimer),
            !.response = IF shell.pc = "resolved" THEN @
                         ELSE closeResponse(byFlag, code, stdout, stderr)]
  /\ UNCHANGED <<evalVars, dispatchVars>>

\* Variant whose close handler does not look at the killed flag.
ShellCloseUnflagged == ShellCloseWith(FALSE)

ShellClose == ShellCloseWith(TRUE)

\* part_007 183-200: the child could not be spawned.
ShellSpawnError ==
  /\ shell.pc = "waiting"
  /\ shell.child = "failing"
  /\ shell' = [shell EXCEPT
       !.pc = "resolved",
       !.child = "failed",
       !.timer = clearTimeout(shell.timer),
       !.response = errorResponse]
  /\ UNCHANGED <<evalVars, dispatchVars>>

Due(timer) == timer.state = "pending" /\ shell.now >= timer.due

\* Time passes while the call waits for the child, or a timer is still
\* pending after the response, and no timer is due.
ShellTick ==
  /\ shell.child \in {"running", "exited"}
  /\ shell.pc = "waiting" \/ shell.killTimer.state = "pending"
  /\ ~Due(shell.timer) /\ ~Due(shell.killTimer)
  /\ shell.now < MaxShellTicks * TickMs
  /\ shell' = [shell EXCEPT !.now = shell.now + TickMs]
  /\ UNCHANGED <<evalVars, dispatchVars>>

ShellNext ==
  \/ ShellStart
  \/ ShellTimer
  \/ ShellKillTimer
  \/ ShellExit
  \/ ShellClose
  \/ ShellSpawnError
  \/ ShellTick

ShellSpec == ShellInit /\ [][ShellNext]_vars

(***************************************************************************)
(* Properties.                                                             *)
(***************************************************************************)
Range(seq) == {seq[i] : i \in 1..Len(seq)}

\* Every entry registered under a pattern that matches the event fired.
Registered == Range(CollectAll(config.events, event))

Failed(status) == status \in {"error", "timeout"}

\* The responses gathered so far, those of the chain in progress included.
Gathered ==
  IF pc \in {"chainLoop", "chainReturn"}
     \/ (pc \in {"exec", "return"} /\ call.member # 0)
  THEN responses \o cResponses
  ELSE responses

PositionsOf(name, rs) == {i \in 1..Len(rs) : rs[i].name = name}

CalledAt(listener) == {j \in 1..Len(calls) : calls[j].listener = listener}

EntryCalled(i) == \E j \in 1..Len(calls) : calls[j].entry = i

MemberNames(chain) == {chain.chain[m].name : m \in 1..Len(chain.chain)}

Done == pc = "done" /\ response # Undefined

\* C1: of two independent entries without `when` that match the event, the one
\* with the lower priority number is executed first and its response comes
\* first in the responses, whatever the declaration order and the run times.
C1_PriorityOrder ==
  \A a \in Registered : \A b \in Registered :
    ( /\ ~isChainConfig(a) /\ ~isChainConfig(b)
      /\ NoCondition(a.when) /\ NoCondition(b.when)
      /\ a.priority < b.priority )
    => /\ \A j \in CalledAt(b) : \E i \in CalledAt(a) : i < j
       /\ \A j \in PositionsOf(b.name, responses) :
            \E i \in PositionsOf(a.name, responses) : i < j
       /\ Done =>
            \A j \in PositionsOf(b.name, response.responses) :
              \E i \in PositionsOf(a.name, response.responses) : i < j

\* "second" is declared before "first" and ran for a shorter time, and both responded.
C1_Witness ==
  /\ Done
  /\ config = ConfigMixed
  /\ \E i \in 1..Len(response.responses) : \E j \in 1..Len(response.responses) :
       /\ response.responses[i].name = "first"
       /\ response.responses[j].name = "second"
       /\ response.responses[i].duration_ms > response.responses[j].duration_ms

\* An entry has failed when it is an independent listener whose response has
\* status error or timeout (a thrown error gives such a response) or a chain
\* one of whose members has.
EntryFailed(i) ==
  \E r \in Range(responses) :
    /\ Failed(r.status)
    /\ r.name \in (IF isChainConfig(entries[i]) THEN MemberNames(entries[i])
                   ELSE {entries[i].name})

EntryResponded(i) ==
  \E r \in Range(responses) :
    r.name \in (IF isChainConfig(entries[i]) THEN MemberNames(entries[i])
                ELSE {entries[i].name})

Oversize == data # Undefined /\ payloadSize > MAX_PAYLOAD_SIZE_BYTES

\* C3: a payload whose serialisation is larger than 10240 bytes makes dispatch
\* and dispatchAsync fail before any matching, execution, background dispatch,
\* log emission or result; a payload of 10240 bytes or less is not rejected.
C3_PayloadLimit ==
  /\ Oversize =>
       /\ pc \in {"idle", "begin", "threw"}
       /\ apc \in {"idle", "begin", "threw"}
       /\ entries = << >>
       /\ calls = << >>
       /\ log = << >>
       /\ response = Undefined
       /\ asyncResponse = Undefined
  /\ (mode = "sync" /\ pc # "begin") => (pc = "threw" <=> Oversize)
  /\ (mode = "async" /\ apc # "begin") => (apc = "threw" <=> Oversize)

\* dispatchAsync has thrown on a payload one byte over the limit.
C3_Witness ==
  /\ apc = "threw"
  /\ payloadSize = MAX_PAYLOAD_SIZE_BYTES + 1

\* C4: when the check before an entry finds elapsed >= effective timeout, the
\* call is marked timed out and goes to assemble its result without starting
\* another entry, and the result holds every response collected so far.
C4_GlobalBudget ==
  /\ [][(pc = "loop" /\ idx <= Len(entries)
           /\ now - startTime >= effectiveTimeout)
        => (timedOut' /\ pc' = "finish" /\ responses' = responses /\ calls' = calls)]_vars
  /\ [][pc = "finish"
        => (/\ response'.timed_out = timedOut
            /\ response'.responses = responses
            /\ calls' = calls
            /\ pc' = "done")]_vars
  /\ [][pc = "done" => (calls' = calls /\ response' = response)]_vars

\* The budget ran out with responses collected and entries still to start.
C4_Witness ==
  /\ Done
  /\ globalExhausted
  /\ response.timed_out
  /\ Len(response.responses) > 0
  /\ idx <= Len(entries)

\* C5: only the global budget stops the loop over the entries: a timed-out
\* result means the check before an entry found elapsed >= effective timeout,
\* and without that every matched entry was executed.
C5_OnlyGlobalBudgetStops ==
  Done =>
    /\ response.timed_out => globalExhausted
    /\ ~globalExhausted => \A i \in 1..Len(entries) : EntryCalled(i)

\* The members of the chain at entry i that have a response, in response order.
RECURSIVE NamesAmong(_, _)
NamesAmong(rs, names) ==
  IF Len(rs) = 0 THEN << >>
  ELSE (IF rs[1].name \in names THEN <<rs[1]>> ELSE << >>) \o NamesAmong(Tail(rs), names)

ChainResponses(chain) == NamesAmong(Gathered, MemberNames(chain))

MemberCalled(chain, m) == CalledAt(chain.chain[m]) # {}

\* C6: the responses of a chain are those of its members 1..k in order; when
\* member k has status error or timeout, or threw, there are exactly k of them
\* and no later member is ever called; a member that threw has a synthetic
\* error response of type chain_execution_error.
C6_ChainFailFast ==
  \A chain \in {e \in Registered : isChainConfig(e)} :
    LET rs == ChainResponses(chain)
    IN /\ Len(rs) <= Len(chain.chain)
       /\ \A k \in 1..Len(rs) :
            /\ rs[k].name = chain.chain[k].name
            /\ Failed(rs[k].status) =>
                 /\ Len(rs) = k
                 /\ \A m \in (k + 1)..Len(chain.chain) : ~MemberCalled(chain, m)
            /\ chain.chain[k].type \notin {"shell", "template", "mcp"} =>
                 /\ rs[k].status = "error"
                 /\ rs[k].error.type = "chain_execution_error"

\* One chain ended on its third member, which threw; the other on its second,
\* which timed out.
C6_Witness ==
  /\ Done
  /\ config = ConfigChains
  /\ \E r \in Range(response.responses) :
       r.name = "s3" /\ r.error.type = "chain_execution_error"
  /\ \E r \in Range(response.responses) : r.name = "t2" /\ r.status = "timeout"

\* The response of the m-th member of a chain.
MemberResponse(chain, m) ==
  CHOOSE r \in Range(Gathered) : r.name = chain.chain[m].name

CallerData == Coalesce(data, EmptyObject)

\* C7: the k-th member of a chain is called with the caller's data in which
\* _chain_results is the array of the responses of members 1..k-1 of that
\* chain, in order; every other field is the caller's.
C7_ChainResults ==
  \A j \in 1..Len(calls) :
    calls[j].member # 0 =>
      LET chain == entries[calls[j].entry]
          passed == calls[j].data.v
      IN /\ DOMAIN passed = (DOMAIN CallerData.v) \cup {ChainResultsKey}
         /\ \A key \in (DOMAIN CallerData.v) \ {ChainResultsKey} :
              passed[key] = CallerData.v[key]
         /\ passed[ChainResultsKey].t = "array"
         /\ Len(passed[ChainResultsKey].v) = calls[j].member - 1
         /\ \A m \in 1..(calls[j].member - 1) :
              passed[ChainResultsKey].v[m] = AsValue(MemberResponse(chain, m))

\* A third member was called, on a payload that had a _chain_results of its own.
C7_Witness ==
  /\ data = DataForged
  /\ \E j \in 1..Len(calls) : calls[j].member = 3

\* C8: an independent listener is called with exactly the caller's data, and
\* the first member of a chain with an empty _chain_results, whatever chains
\* ran before.
C8_NoLeak ==
  \A j \in 1..Len(calls) :
    /\ calls[j].member = 0 => calls[j].data = CallerData
    /\ calls[j].member = 1 => calls[j].data.v[ChainResultsKey] = Arr(<< >>)

\* After a chain with two responses, a later chain's first member and then an
\* independent listener were called.
C8_Witness ==
  \E i \in 1..Len(calls) : \E j \in 1..Len(calls) : \E k \in 1..Len(calls) :
    /\ i < j /\ j < k
    /\ calls[i].member = 2
    /\ calls[j].member = 1 /\ calls[j].entry > calls[i].entry
    /\ calls[k].member = 0

\* C9: when the check before a chain member finds that the time since the
\* chain started has reached the chain's budget, the chain reports timedOut
\* without calling another member and its responses so far are kept; a member
\* that is called is allotted min(member.timeout ?? budget, budget - elapsed).
C9_ChainBudget ==
  /\ [][(pc = "chainLoop" /\ cidx <= Len(entries[idx].chain)
           /\ now - chainStart >= chainTimeout)
        => (/\ chainTimedOut' /\ pc' = "chainReturn"
            /\ cResponses' = cResponses /\ calls' = calls)]_vars
  /\ [][pc = "chainReturn" => responses' = responses \o cResponses]_vars
  /\ [](pc = "exec" /\ call.member # 0 =>
          LET elapsed == call.at - chainStart
              own == call.listener.timeout
          IN /\ call.timeout <= chainTimeout - elapsed
             /\ own # Undefined => call.timeout <= own.n
             /\ \/ call.timeout = chainTimeout - elapsed
                \/ own # Undefined /\ call.timeout = own.n
                \/ own = Undefined /\ call.timeout = chainTimeout)

\* A chain ran out of its budget after one member; in the chain before it the
\* second member had been allotted what was left of that chain's budget.
C9_Witness ==
  /\ pc = "chainReturn"
  /\ chainTimedOut
  /\ Len(cResponses) >= 1
  /\ \E j \in 1..Len(calls) :
       /\ calls[j].member = 2
       /\ calls[j].listener.timeout = Undefined
       /\ calls[j].timeout < effectiveTimeout

ChainGate(chain) ==
  \/ NoCondition(chain.when)
  \/ evaluateCondition(chain.when.v, CallerData)

\* C10: a chain whose `when` is false on the event data has no member called
\* and no response; a chain whose `when` is true or absent has its members
\* called one after the other, whatever `when` a member declares.
C10_ChainGate ==
  \A chain \in {e \in Registered : isChainConfig(e)} :
    /\ ~ChainGate(chain) =>
         /\ \A m \in 1..Len(chain.chain) : ~MemberCalled(chain, m)
         /\ ChainResponses(chain) = << >>
    /\ (ChainGate(chain) /\ Done /\ ~response.timed_out) =>
         /\ MemberCalled(chain, 1)
         /\ \A m \in 2..Len(chain.chain) :
              (Len(ChainResponses(chain)) >= m - 1
                 /\ ~Failed(ChainResponses(chain)[m - 1].status))
              => MemberCalled(chain, m)

\* The chain was gated off while the other entries of the event ran.
C10_Witness ==
  /\ Done
  /\ config = ConfigMixed
  /\ event = EventAB
  /\ data = DataNo
  /\ Len(response.responses) = 3

\* The chain ran, its second member included, whose own `when` is false.
C10_WitnessMemberCondition ==
  /\ Done
  /\ config = ConfigMixed
  /\ data = DataOk
  /\ \E r \in Range(response.responses) : r.name = "step2"

\* The entries registered under a matching pattern whose condition passes on
\* the event data, as (pattern, position) pairs.
Eligible ==
  UNION { { <<p, i>> : i \in { k \in 1..Len(config.events[p].entries) :
                                 ChainGate(config.events[p].entries[k]) } } :
          p \in { q \in 1..Len(config.events) :
                    matchesEvent(config.events[q].pattern, event) } }

C12_AsyncIdCorrelates ==
  apc = "returned" =>
    /\ \A j \in 1..Len(calls) : calls[j].invocationId = asyncResponse.invocation_id
    /\ \A k \in 1..Len(log) : log[k].invocation_id = asyncResponse.invocation_id

\* C13: a rejection of the background dispatch never reaches the caller of
\* dispatchAsync, who has the enqueued result, and is never left unhandled.
C13_BackgroundFailureSwallowed ==
  /\ rejection # "unhandled"
  /\ (mode = "async" /\ pc = "threw") =>
       /\ apc = "returned"
       /\ asyncResponse.status = "enqueued"
       /\ rejection = "handled"

\* The background dispatch rejected (the payload had grown over the limit by
\* the time it measured it) after dispatchAsync had accepted it.
C13_Witness ==
  /\ mode = "async"
  /\ pc = "threw"
  /\ apc = "returned"
  /\ payloadSize <= MAX_PAYLOAD_SIZE_BYTES
  /\ asyncResponse.listeners_registered > 0

Matched == fn = "matchesEvent" /\ output.done

\* C14: matchesEvent(pattern, event) is true exactly when the pattern equals
\* the event, or the pattern is `prefix.*` and the event begins with
\* `prefix.`; the bare prefix, a name that only shares the prefix's letters,
\* and every other wildcard form do not match.
C14_MatchesEvent ==
  Matched =>
    LET p == input.pattern
        e == input.event
        n == Len(p)
        wildcard == n >= 2 /\ p[n - 1] = "." /\ p[n] = "*"
    IN output.value <=>
         \/ p = e
         \/ /\ wildcard
            /\ Len(e) >= n - 1
            /\ \A i \in 1..(n - 1) : e[i] = p[i]

\* `a.*` was matched against `a.b.c` (a match two levels down) and against
\* `ab.c` and `a` (no match), and `a.*.c` against `a.b.c` (no match).
C14_Witness ==
  /\ Matched
  /\ input.pattern = <<"a", ".", "*">>
  /\ input.event = <<"a", ".", "b", ".", "c">>
  /\ output.value

Found == fn = "findEntries" /\ output.done

\* Where the entries that match input.event and pass their conditions on
\* input.data are declared: (pattern, position) pairs.
Declared ==
  LET events == input.config.events
  IN UNION { { <<p, i>> : i \in { k \in 1..Len(events[p].entries) :
                 \/ NoCondition(events[p].entries[k].when)
                 \/ evaluateCondition(events[p].entries[k].when.v,
                                      Coalesce(input.data, EmptyObject)) } } :
             p \in { q \in 1..Len(events) :
                       matchesEvent(events[q].pattern, input.event) } }

DeclaredAt(at) == input.config.events[at[1]].entries[at[2]]

DeclaredBefore(a, b) == a[1] < b[1] \/ (a[1] = b[1] /\ a[2] < b[2])

\* C15: findEntries returns exactly the entries, listeners and chains,
\* registered under a matching pattern whose condition passes, by ascending
\* priority, those of equal priority in declaration order, across patterns too.
C15_FindEntries ==
  Found =>
    LET out == output.value
        PlaceOf(entry) == CHOOSE at \in Declared : DeclaredAt(at) = entry
    IN /\ Len(out) = Cardinality(Declared)
       /\ \A at \in Declared : \E k \in 1..Len(out) : out[k] = DeclaredAt(at)
       /\ \A k \in 1..Len(out) : \E at \in Declared : out[k] = DeclaredAt(at)
       /\ \A k \in 1..Len(out) : \A l \in (k + 1)..Len(out) :
            /\ out[k].priority <= out[l].priority
            /\ out[k].priority = out[l].priority =>
                 DeclaredBefore(PlaceOf(out[k]), PlaceOf(out[l]))

\* Four entries of one priority, a chain among them, came back in declaration
\* order: the two of the wildcard pattern, then the two of the exact one.
C15_Witness ==
  /\ Found
  /\ Len(output.value) = 4
  /\ \A k \in 1..4 : output.value[k].priority = 2
  /\ isChainConfig(output.value[2])
  /\ output.value[3].name = "e1"

Evaluated == fn = "evaluateCondition" /\ output.done

\* C16: evaluateCondition returns true for every expression outside the
\* supported grammar, whatever the data, those that begin with a path and go
\* on with other syntax included.
C16_UnsupportedIsTrue ==
  (Evaluated /\ input.expression \in OutsideGrammar) => output.value

Sample == CondValues[input.sample]

\* What a bare path resolves to in the payload: absent when the key, or a
\* key on the way, is missing or null.
Resolves == input.expression \in {PathV, PathOV} /\ Sample.t # "undefined"

Holds(operator, value) ==
  LET lhs == value.n
      rhs == 2 * value.d
  IN CASE operator = CompEq -> lhs = rhs
       [] operator = CompNe -> lhs # rhs
       [] operator = CompGt -> lhs > rhs
       [] operator = CompLt -> lhs < rhs
       [] operator = CompGe -> lhs >= rhs
       [] operator = CompLe -> lhs <= rhs

\* C18: for a field holding a number v, `.v <op> 2` evaluates to the truth of
\* v <op> 2, for each of ==, !=, >, <, >= and <=.
C18_NumberComparison ==
  (Evaluated /\ input.expression \in Comparisons /\ Sample.t = "number")
  => (output.value <=> Holds(input.expression, Sample))

\* C19: `.v | length` is the number of characters of a string or of elements
\* of an array, alone (then true) or compared with a literal; on a number, a
\* boolean or an object the expression is unsupported and the result is true.
C19_Length ==
  (Evaluated /\ input.expression \in LengthPipes)
  => IF Sample.t \in {"string", "array"}
     THEN output.value <=>
            CASE input.expression = LengthV -> TRUE
              [] input.expression = LengthGt -> Len(Sample.v) > 2
              [] input.expression = LengthEq -> Len(Sample.v) = 3
              [] input.expression = LengthLt -> Len(Sample.v) < 1
     ELSE Sample.t \in {"number", "boolean", "object"} => output.value

Sent(signal) == \E i \in 1..Len(shell.signals) : shell.signals[i] = signal

ClosedBy(time) == shell.child = "closed" /\ shell.closedAt <= time

Unsignalled == shell.pc = "resolved" /\ shell.child = "closed" /\ ~Sent("SIGTERM")

\* C21: when no signal was sent, a non-zero exit code gives status error,
\* type execution_error, with the captured stderr as details; exit code 0
\* gives success with {} for an output of whitespace only and with the
\* parsed value for JSON, and status error, type invalid_output, with the
\* first 500 characters of stdout as details for any other output.
C21_OutcomeMapping ==
  Unsignalled =>
    LET r == shell.response
        blank == \A i \in 1..Len(shell.stdout) : shell.stdout[i] = " "
    IN /\ r.duration_ms = shell.closedAt
       /\ shell.code # 0 =>
            /\ r.status = "error" /\ r.result = Null
            /\ r.error.type = "execution_error"
            /\ Len(shell.stderr) > 0 => r.error.details = Str(shell.stderr)
       /\ (shell.code = 0 /\ blank) =>
            r.status = "success" /\ r.result = EmptyObject
       /\ (shell.code = 0 /\ shell.stdout = OutObject) =>
            r.status = "success" /\ r.result = EmptyObject
       /\ (shell.code = 0 /\ shell.stdout = OutNumber) =>
            r.status = "success" /\ r.result = Num(7)
       /\ (shell.code = 0 /\ shell.stdout \in {OutWord, OutLong}) =>
            /\ r.status = "error" /\ r.result = Null
            /\ r.error.type = "invalid_output"
            /\ r.error.details.t = "string"
            /\ Len(r.error.details.v) = Min(Len(shell.stdout), 500)
            /\ \A i \in 1..Len(r.error.details.v) :
                 r.error.details.v[i] = shell.stdout[i]

\* A child exited with code 0 after printing 501 characters that are not JSON.
C21_Witness ==
  /\ Unsignalled
  /\ shell.code = 0
  /\ shell.stdout = OutLong
  /\ shell.response.error.type = "invalid_output"

\* C22: executeShellListener never rejects: a missing command, a command that
\* cannot be spawned, a non-zero exit, a timeout, invalid output and a
\* command whose executable token is empty each resolve to one well-formed
\* response with duration_ms populated.
C22_NeverRejects ==
  /\ shell.pc # "rejected"
  /\ shell.pc = "resolved" =>
       /\ shell.response.listener_id = shell.listener.name
       /\ shell.response.type = "shell"
       /\ shell.response.status \in {"success", "error", "timeout"}
       /\ shell.response.duration_ms \in 0..shell.now

McpCalled(j) == calls[j].listener.type = "mcp"

\* C23: the mcp executor performs no call; for a listener with server and
\* tool it answers pending_execution with one instruction {server, tool,
\* args} in result.mcp_calls, args having exactly the keys of args_mapping
\* with their rendered values, and the response adds nothing to the errors
\* of the dispatch result.
C23_McpInstruction ==
  Done =>
    \A j \in 1..Len(calls) :
      McpCalled(j) =>
        LET listener == calls[j].listener
        IN /\ \E r \in Range(response.responses) :
                /\ r.name = listener.name
                /\ r.status = "pending_execution"
                /\ Len(r.result.v.mcp_calls) = 1
                /\ LET instruction == r.result.v.mcp_calls[1]
                   IN /\ DOMAIN instruction = {"server", "tool", "args"}
                      /\ instruction.server = listener.server.v
                      /\ instruction.tool = listener.tool.v
                      /\ DOMAIN instruction.args.v = DOMAIN listener.args_mapping.v
                      /\ instruction.args.v[QKey] = data.v[SKey]
                      /\ instruction.args.v[HKey] = Str(<<"a", "t", " ", "/", "h">>)
           /\ \A e \in Range(response.errors) : e.listener_id # listener.name

\* "last" was executed with { s: "ok" } and its instruction carries q: "ok".
C23_Witness ==
  /\ Done
  /\ \E j \in 1..Len(calls) : McpCalled(j)
  /\ \E r \in Range(response.responses) :
       /\ r.status = "pending_execution"
       /\ r.result.v.mcp_calls[1].args.v[QKey] = Str(<<"o", "k">>)

Rendered == fn = "substituteTemplate" /\ output.done

\* C24: ${data.a.b} is replaced by the string form of the field reached by
\* the dotted path a.b, ${env.NAME} by the value of the environment variable
\* NAME, and a reference to something absent by the empty string.
C24_References ==
  Rendered =>
    LET d == input.data.v
        nested == AKey \in DOMAIN d /\ BKey \in DOMAIN d[AKey].v
    IN /\ input.template = Templates[1] =>
            output.value = IF nested THEN ToStringJS(d[AKey].v[BKey]) ELSE << >>
       /\ input.template = Templates[2] =>
            output.value = IF SKey \in DOMAIN d THEN ToStringJS(d[SKey]) ELSE << >>
       /\ input.template = Templates[4] => output.value = ProcessEnv.v[HomeKey].v
       /\ input.template = Templates[5] => output.value = << >>

UnknownCalled(j) == calls[j].listener.type \notin {"shell", "template", "mcp"}

Named(records, name) == {i \in 1..Len(records) : records[i].listener_id = name}

\* C25: a listener of a type other than shell, template and mcp fails only
\* its own entry: the result holds one response for it, with status error
\* and error type execution_error (chain_execution_error for a member of a
\* chain), the entries after it are still executed, and dispatch returns its
\* result as usual.
C25_UnknownType ==
  /\ \A j \in 1..Len(calls) : UnknownCalled(j) => pc # "threw"
  /\ Done =>
       \A j \in 1..Len(calls) :
         UnknownCalled(j) =>
           LET listener == calls[j].listener
               type == IF calls[j].member = 0 THEN "execution_error"
                       ELSE "chain_execution_error"
           IN /\ Cardinality(Named(response.responses, listener.name)) = 1
              /\ \A i \in Named(response.responses, listener.name) :
                   /\ response.responses[i].status = "error"
                   /\ response.responses[i].type = listener.type
                   /\ response.responses[i].error.type = type
              /\ Cardinality(Named(response.errors, listener.name)) = 1
              /\ \A i \in Named(response.errors, listener.name) :
                   response.errors[i].type = type
              /\ response.listeners_executed = Len(response.responses)
              /\ calls[j].entry < Len(entries) => EntryCalled(calls[j].entry + 1)

\* "s3" threw inside its chain, then the members of the next chain and
\* "last" were executed.
C25_Witness ==
  /\ Done
  /\ config = ConfigChains
  /\ \E j \in 1..Len(calls) : UnknownCalled(j) /\ calls[j].member = 3
  /\ \E r \in Range(response.responses) :
       r.name = "s3" /\ r.error.type = "chain_execution_error"
  /\ \E r \in Range(response.responses) : r.name = "t1"
  /\ \E r \in Range(response.responses) : r.name = "last"

\* C26: every call of dispatch that returns a result has handed that very
\* result to logEmit, once, in the step in which it returns, also when no
\* entry matched (nothing executed, no responses, no errors, timed_out false)
\* and when the call timed out; a failure inside logEmit leaves the call
\* returning the same result.
C26_LoggedOnce ==
  /\ [](Done =>
         /\ log = <<response>>
         /\ response = EmitResponse
         /\ Len(logFile) <= 1
         /\ Len(entries) = 0 =>
              /\ response.listeners_executed = 0
              /\ response.responses = << >>
              /\ response.errors = << >>
              /\ ~response.timed_out)
  /\ [](pc \notin {"done"} => log = << >>)
  /\ [][log' # log => (pc # "done" /\ Done' /\ log' = <<response'>>)]_vars

\* A call that timed out returned its result although the log line could not
\* be written.
C26_Witness ==
  /\ Done
  /\ response.timed_out
  /\ log = <<response>>
  /\ logFile = << >>

\* A call for which no entry matched returned after logEmit wrote its line.
C26_WitnessNoEntries ==
  /\ Done
  /\ Len(entries) = 0
  /\ logFile = <<logEntry(response)>>

\* C27: within one dispatch at most one listener is executing at any moment:
\* every call but the last has produced its response, and an entry or a
\* member of a chain is started only when the one before it has answered,
\* no earlier than the end of its run.
C27_OneAtATime ==
  /\ [](LET answered == IF pc = "return" THEN Len(Gathered) + 1 ELSE Len(Gathered)
        IN /\ Len(calls) <= answered + 1
           /\ \A j \in 1..(Len(calls) - 1) :
                /\ j <= Len(Gathered)
                /\ Gathered[j].name = calls[j].listener.name
                /\ calls[j + 1].at >= calls[j].at + Gathered[j].duration_ms)
  /\ [][calls' # calls =>
          /\ call = Undefined
          /\ Len(calls') = Len(calls) + 1
          /\ Len(Gathered) = Len(calls)]_vars

\* Two listeners ran for some time one after the other.
C27_Witness ==
  /\ Done
  /\ \E j \in 1..(Len(calls) - 1) :
       /\ Gathered[j].duration_ms > 0
       /\ Gathered[j + 1].duration_ms > 0
       /\ calls[j + 1].at = calls[j].at + Gathered[j].duration_ms

Allotted == fn = "allot" /\ output.done /\ ~output.value.exhausted

\* C28: the budget of a call is timeout, else default_timeout, else 5000;
\* what an entry is allotted is the smaller of its own timeout (the budget
\* when it has none) and the budget less the time spent, which is always
\* more than 0 and never more than what remains of the budget.
C28_Allotted ==
  (fn = "allot" /\ output.done) =>
    LET budget == IF input.timeout # Undefined THEN input.timeout.n
                  ELSE IF input.default_timeout # Undefined
                       THEN input.default_timeout.n
                       ELSE 5000
    IN /\ output.value.effectiveTimeout = budget
       /\ Allotted =>
            /\ output.value.allotted > 0
            /\ output.value.allotted <= budget - input.elapsed
            /\ output.value.allotted \in
                 {budget - input.elapsed,
                  IF input.entry.timeout = Undefined THEN budget
                  ELSE input.entry.timeout.n}

\* The entries of the configuration under a pattern that matches the event.
Configured ==
  {<<i, j>> \in (1..Len(input.config.events)) \X (1..3) :
     /\ j <= Len(input.config.events[i].entries)
     /\ matchesEvent(input.config.events[i].pattern, input.event)}

\* C29: has_listeners executes nothing and changes nothing; listener_count
\* is the number of configured entries under a pattern that matches the
\* event, has_listeners is listener_count > 0, and priorities are the
\* priorities of those entries in ascending order.
C29_HasListeners ==
  (fn = "hasListeners" /\ output.done) =>
    LET r == output.value
    IN /\ r.listener_count = Cardinality(Configured)
       /\ r.has_listeners = (r.listener_count > 0)
       /\ Len(r.priorities) = r.listener_count
       /\ \A k \in 1..(Len(r.priorities) - 1) : r.priorities[k] <= r.priorities[k + 1]
       /\ \A n \in 1..MaxPriority :
            Cardinality({k \in 1..Len(r.priorities) : r.priorities[k] = n})
              = Cardinality({c \in Configured :
                              input.config.events[c[1]].entries[c[2]].priority = n})
       /\ pc = "idle" /\ calls = << >> /\ log = << >>

Validated == fn = "validateConfig" /\ output.done

\* The errors reported about the k-th entry, other than those about the
\* command of a shell listener not being found.
ReportedAbout(k) ==
  {i \in 1..Len(output.value) :
     output.value[i].entry = k /\ output.value[i].kind # "command_not_found"}

\* C30: validateConfig reports an error for every chain that is empty, that
\* has a member of type mcp or that has a member with a `when` of its own,
\* and reports no error about a chain made of valid shell members.
C30_ChainValidation ==
  Validated =>
    \A k \in 1..Len(input.picks) :
      LET entry == Picked(input.picks)[k]
      IN isChainConfig(entry) =>
           LET members == Range(entry.chain)
               flawed == \/ entry.chain = << >>
                         \/ \E m \in members : m.type = "mcp"
                         \/ \E m \in members : ~NoCondition(m.when)
               sound == /\ entry.chain # << >>
                        /\ \A m \in members :
                             /\ m.type = "shell"
                             /\ ~Missing(m.command)
                             /\ NoCondition(m.when)
           IN /\ flawed => ReportedAbout(k) # {}
              /\ sound => ReportedAbout(k) = {}

Merged == fn = "mergeListeners" /\ output.done

NamesOf(listeners) == {nameOrGenerated(listeners[i]) : i \in 1..Len(listeners)}

\* The definitions of a name in a file, the name filled in.
DefinitionsIn(listeners, name) ==
  {[listeners[i] EXCEPT !.name = Str(name)] :
     i \in {j \in 1..Len(listeners) : nameOrGenerated(listeners[j]) = name}}

\* C31: merging the listeners of an event from the global and the project
\* file gives one listener for each distinct name, the project's definition
\* when the project has the name and the global one otherwise, in ascending
\* order of priority.
C31_MergeByName ==
  Merged =>
    LET g == MergeSampled(input.globalListeners)
        p == MergeSampled(input.projectListeners)
        out == output.value
    IN /\ {out[i].name.v : i \in 1..Len(out)} = NamesOf(g) \cup NamesOf(p)
       /\ \A i, j \in 1..Len(out) : out[i].name = out[j].name => i = j
       /\ \A i \in 1..Len(out) :
            IF out[i].name.v \in NamesOf(p)
            THEN out[i] \in DefinitionsIn(p, out[i].name.v)
            ELSE out[i] \in DefinitionsIn(g, out[i].name.v)
       /\ \A i \in 1..(Len(out) - 1) :
            priorityOrDefault(out[i]) <= priorityOrDefault(out[i + 1])

\* "a" is defined in both files, "b" in the global one only: the result is
\* "b" and then the project's "a".
C31_Witness ==
  /\ Merged
  /\ input.globalListeners = <<1, 3>>
  /\ input.projectListeners = <<2>>
  /\ Len(output.value) = 2
  /\ output.value[1].name = Str(<<"b">>)
  /\ output.value[2] = MergeSamples[2]

RECURSIVE ErrorsOfFailed(_)
\* The error records of the responses with status error or timeout, in order.
ErrorsOfFailed(rs) ==
  IF Len(rs) = 0 THEN << >>
  ELSE (IF Failed(rs[1].status) THEN <<rs[1].error>> ELSE << >>)
       \o ErrorsOfFailed(Tail(rs))

\* C32: in every result listeners_executed is the number of responses, and
\* errors holds one record for each response with status error or timeout,
\* in the order of the responses, and none for a response with status
\* success or pending_execution.
C32_ErrorsMirrorResponses ==
  Done =>
    /\ response.listeners_executed = Len(response.responses)
    /\ response.errors = ErrorsOfFailed(response.responses)
    /\ \A i \in 1..Len(response.errors) :
         response.errors[i].listener_id \in
           {r.name : r \in {x \in Range(response.responses) : Failed(x.status)}}
    /\ \A r \in Range(response.responses) :
         /\ r.status \in {"success", "pending_execution", "error", "timeout"}
         /\ ~Failed(r.status) => r.error = Undefined

\* A result with a success, a failure inside a chain and a failure outside.
C32_Witness ==
  /\ Done
  /\ Len(response.errors) = 2
  /\ \E r \in Range(response.responses) : r.status = "success"
  /\ \E r \in Range(response.responses) : r.error # Undefined /\ r.name = "s3"
  /\ \E r \in Range(response.responses) : r.status = "timeout" /\ r.name = "t2"

\* C33: timed_out is true exactly when a budget check failed and work was
\* skipped for it: the check before an entry, or a chain's check before a
\* member.  A listener that answers with status timeout, or a last entry that
\* runs past the budget, leaves it false.
C33_TimedOutMeansSkipped ==
  /\ [](Done => (response.timed_out <=> (globalExhausted \/ chainTimedOut)))
  /\ [](Done /\ response.timed_out =>
          /\ idx <= Len(entries)
          /\ globalExhausted => ~EntryCalled(idx)
          /\ chainTimedOut =>
                /\ isChainConfig(entries[idx])
                /\ cidx <= Len(entries[idx].chain)
                /\ \A j \in 1..Len(calls) :
                     ~(calls[j].entry = idx /\ calls[j].member = cidx))
  /\ [][(timedOut' /\ ~timedOut) =>
          \/ /\ pc = "loop" /\ idx <= Len(entries)
             /\ now - startTime >= effectiveTimeout
          \/ pc = "chainReturn" /\ chainTimedOut]_vars
  /\ [][(chainTimedOut' /\ ~chainTimedOut) =>
          /\ pc = "chainLoop"
          /\ cidx <= Len(entries[idx].chain)
          /\ now - chainStart >= chainTimeout]_vars

\* A chain's own check stopped the dispatch: the result is flagged although
\* the global check never failed.
C33_Witness ==
  /\ Done
  /\ response.timed_out
  /\ chainTimedOut /\ ~globalExhausted
  /\ Len(response.responses) >= 1

\* The last entry answered with status timeout after the whole budget had
\* gone by, and the result is not flagged.
C33_WitnessUnflagged ==
  /\ Done
  /\ ~response.timed_out
  /\ now - startTime >= effectiveTimeout
  /\ \E r \in Range(response.responses) : r.status = "timeout"

\* The check before an entry stopped the dispatch.
C33_WitnessGlobal ==
  /\ Done
  /\ response.timed_out
  /\ globalExhausted /\ ~chainTimedOut

\* C34: once the call has resolved its response neither timer is pending and
\* child.kill is not called any more, whether the response came from the
\* close handler, before or after the first timer, or from the `error`
\* handler.
C34_NoTimerAfterResponse ==
  /\ [](shell.pc = "resolved" =>
          shell.timer.state # "pending" /\ shell.killTimer.state # "pending")
  /\ [][shell.pc = "resolved" => shell'.signals = shell.signals]_vars

\* The same for the responses of the close handler and of the `error`
\* handler of a child that could not be spawned.
C34_ClearedExceptRefusal ==
  /\ [](shell.pc = "resolved" /\ ~shell.refused =>
          shell.timer.state # "pending" /\ shell.killTimer.state # "pending")
  /\ [][shell.pc = "resolved" /\ ~shell.refused =>
          shell'.signals = shell.signals]_vars

\* SIGKILL was called for after the `error` handler had resolved the response.
C34_KilledAfterResponse ==
  /\ shell.pc = "resolved"
  /\ shell.refused
  /\ shell.response.status = "error"
  /\ shell.signals = <<"SIGTERM", "SIGKILL">>
  /\ shell.child = "running"

\* The call under the assumptions of C35: timers fire when due, time goes by,
\* and a child that SIGKILL was sent to closes.  A child that was sent
\* nothing, or SIGTERM only, may stay open for ever.
FairShellSpec ==
  /\ ShellSpec
  /\ WF_vars(ShellTimer)
  /\ WF_vars(ShellKillTimer)
  /\ WF_vars(ShellTick)
  /\ WF_vars(ShellClose /\ Sent("SIGKILL"))

\* C35: every call whose child was spawned resolves in the end: the child
\* closes by itself, or the timer fires, SIGTERM and 500 ms later SIGKILL
\* are sent and the close that follows resolves the response.
C35_EventuallyResolves ==
  (shell.pc = "waiting" /\ shell.child \in {"running", "exited"})
    ~> (shell.pc = "resolved" /\ shell.response # Undefined)

\* A child that never closed by itself was sent both signals, and the close
\* that followed resolved the call.
C35_Witness ==
  /\ shell.pc = "resolved"
  /\ shell.child = "closed"
  /\ ~shell.refused
  /\ shell.signals = <<"SIGTERM", "SIGKILL">>
  /\ shell.closedAt >= shell.killAt
  /\ shell.code = 0 - 1
  /\ shell.response.status = "timeout"

\* C36: a child that exited with code 0 before `timeout` ms had passed is
\* never answered for with status timeout, also when its close event comes
\* after the first timer has fired; status timeout is for a child that was
\* still running at the deadline.
C36_ExitedInTimeNotTimeout ==
  (shell.pc = "resolved" /\ shell.child = "closed" /\ ~shell.refused) =>
    /\ (shell.code = 0 /\ shell.exitedAt < shell.timeout) =>
         shell.response.status # "timeout"
    /\ shell.response.status = "timeout" => shell.exitedAt >= shell.timeout

\* The child exited with code 0 at once, its close event came after the
\* first timer, and the response says timeout.
C36_LateClose ==
  /\ shell.pc = "resolved"
  /\ shell.child = "closed"
  /\ shell.code = 0 /\ shell.exitedAt = 0
  /\ shell.stdout = OutObject
  /\ shell.signals = <<"SIGTERM">>
  /\ shell.response.status = "timeout"

\* When the close event comes before the first timer fires the exit code and
\* the output decide, never the clock.
C36_CloseBeforeTimer ==
  (shell.pc = "resolved" /\ shell.child = "closed" /\ ~Sent("SIGTERM")) =>
    shell.response.status # "timeout"

Occurs(part, text) == \E i \in 1..Len(text) : StartsWithAt(text, i, part)

\* C37: a value put in for a ${data.X} reference is inserted as it is and not
\* read again: the output of a template without ${env.} references does not
\* depend on the environment, also when a data value holds the text of such
\* a reference.
C37_DataVerbatim ==
  (Rendered /\ ~Occurs(EnvRef, input.template)) =>
    /\ output.value = replaceRefs(input.template, DataRef, input.data)
    /\ ~Occurs(ProcessEnv.v[HomeKey].v, output.value)

\* "${data.s}" rendered with { s: "${env.HOME}" } gives the value of HOME.
C37_EnvThroughData ==
  /\ Rendered
  /\ input.template = Templates[2]
  /\ input.data = CraftedData
  /\ output.value = ProcessEnv.v[HomeKey].v

\* With data values that hold no reference the environment comes in through
\* the references of the template only.
C37_PlainDataVerbatim ==
  (Rendered /\ ~Occurs(EnvRef, input.template) /\ input.data # CraftedData) =>
    output.value = replaceRefs(input.template, DataRef, input.data)

\* The background dispatch has computed its entry list.
BackgroundListed == pc \notin {"idle", "begin", "find", "threw"}

C38_CountedNotRun ==
  /\ apc = "returned"
  /\ asyncResponse.listeners_registered > 0
  /\ pc = "threw"
  /\ entries = << >> /\ calls = << >> /\ log = << >>

\* When the payload is as it was when it was counted, the list is the same.
C38_SameListUnlessChanged ==
  apc = "returned" =>
    /\ pc # "idle" <=> asyncResponse.listeners_registered > 0
    /\ (asyncResponse.listeners_registered > 0 /\ BackgroundListed) =>
         /\ entries = findEntries(event, data, config)
         /\ Len(entries) = asyncResponse.listeners_registered
    /\ asyncResponse.listeners_registered = 0 =>
         calls = << >> /\ log = << >> /\ logFile = << >> /\ response = Undefined

Handled == fn = "emitHandler" /\ output.done

Disabled == input.enabled.t = "boolean" /\ ~input.enabled.v

EmptyResult(r) ==
  /\ r.listeners_executed = 0
  /\ r.responses = << >>
  /\ r.errors = << >>
  /\ r.timed_out = FALSE

\* The handler ended by returning the empty result, without a call of
\* dispatch or dispatchAsync, the only places where entries are matched,
\* listeners run, a background dispatch starts or the log is written.
ReturnedEmpty ==
  /\ output.value.does = "return"
  /\ EmptyResult(output.value.result)

\* C40 as stated: with config.enabled false the handler returns the empty
\* result, in sync and in async mode, whatever the other arguments.
C40_DisabledReturnsEmpty ==
  (Handled /\ Disabled) => ReturnedEmpty

\* C40 for an event argument that passes the handler's checks: with
\* config.enabled false the handler returns the empty result for the event, in
\* sync and in async mode, and calls neither dispatch nor dispatchAsync; a
\* missing or malformed event name is refused with an error first.
C40_DisabledValidReturnsEmpty ==
  (Handled /\ Disabled) =>
    IF input.event.t = "string" /\ Len(input.event.v) > 0
       /\ EVENT_NAME_PATTERN(input.event.v)
    THEN ReturnedEmpty /\ output.value.result.event = input.event.v
    ELSE output.value.does = "throw"

\* The disabled plugin was asked to emit a.b in async mode.
C40_Witness ==
  /\ Handled /\ Disabled
  /\ input.event = EmitEvents[1]
  /\ input.mode = EmitModes[3]
  /\ ReturnedEmpty

\* The disabled plugin was asked to emit A.b and the handler threw.
C40_WitnessRefused ==
  /\ Handled /\ Disabled
  /\ input.event = EmitEvents[3]
  /\ output.value.does = "throw"

\* dispatch and dispatchAsync step by step, together with findEntries and
\* findAllEntriesForEvent applied on their own.
FrameInit ==
  \/ Init
  \/ EvalInit /\ (fn = "findEntries" \/ fn = "findAllEntriesForEvent")

FrameNext ==
  \/ Next
  \/ ApplyFindEntries
  \/ ApplyFindAllEntries

FrameSpec == FrameInit /\ [][FrameNext]_vars

C39_WitnessFindAll ==
  /\ fn = "findAllEntriesForEvent"
  /\ output.done
  /\ Len(output.value) = 4
  /\ output.value # CollectAll(input.config.events, input.event)

====
